---- MODULE Spec2Model ----
(***************************************************************************)
(* Model of socialcli's scheduling engine (core/scheduler_daemon.py) and   *)
(* of the JSON queue store it drives (core/storage.py).                    *)
(*                                                                         *)
(* The queue document is the sequence `doc` of item records.  An engine    *)
(* process p runs cycles: the post phase (_process_posts) followed by the  *)
(* comment phase (_process_comments).  Every store access of the engine is *)
(* a step of its own; update_scheduled_post is two steps, the read of the  *)
(* document and the write of the modified copy.  What the file system, the *)
(* configuration and the platform answer is drawn nondeterministically at  *)
(* the step that asks.                                                     *)
(*                                                                         *)
(* Time is in minutes.  `clock` only moves forward; an engine reads it     *)
(* where the code calls datetime.now().                                    *)
(*                                                                         *)
(* Spec    : one engine; the user creates and deletes items between cycles *)
(* SpecTwo : two engines running cycles concurrently on a document that     *)
(*           already holds a published post                                *)
(* SpecStore : two clients calling the store concurrently, every load,      *)
(*           truncation and dump of the file a step                        *)
(* SpecOne : one client calling the store                                  *)
(* SpecQuery : one prune or one query of a document                        *)
(* SpecRaise : one engine whose store calls may raise                      *)
(* SpecRun : the daemon in run(), with shutdown signals                    *)
(* SpecUser : one engine, the user calling the store also during a cycle   *)
(* SpecLock : two clients calling the store, every flock a step            *)
(* SpecLoop : one engine cycling for ever on a document of one or two items *)
(***************************************************************************)
EXTENDS Integers, Sequences, FiniteSets, TLC

(* ------------------------------ bounds -------------------------------- *)

\* number of create_scheduled_post calls in a behaviour of Spec
MaxCreates == 2

\* number of create_scheduled_post calls in a behaviour of SpecTwo
MaxCreatesTwo == 1

\* longest media list a content file declares
MaxMedia == 2

\* identifiers the platform hands out in a behaviour
MaxUrn == 2

\* store calls the clients of SpecStore make in a behaviour
MaxStoreOps == 3

\* comments in the documents SpecQuery prunes and queries
MaxQueryItems == 2

(* -------------------------- program constants ------------------------- *)

\* timedelta(minutes=5) in create_scheduled_post
MinDelay == 5

\* Python's None for urn and parent_uuid
NoUrn == 0
NoUuid == 0

\* blocked_reason: None, or a message with the id/uuid it is built from
NoReason == [msg |-> "None", ref |-> 0]

Procs == {1, 2}

Types == {"post", "comment"}
Statuses == {"pending", "published", "failed"}
Providers == {"linkedin", "x"}

\* publish_at values and the values datetime.now() takes: minutes of one
\* day
Times == {0, 5, 10}

\* the character between date and time in a publish_at string:
\* datetime.isoformat() writes "T", str(datetime) writes a space, and
\* datetime.fromisoformat reads both
Seps == {"T", " "}

\* the k-th file the 'media' list of a front matter declares
MediaName(k) == <<"media", k>>

(* ------------------------------- state -------------------------------- *)

VARIABLES
    doc,        \* the "posts" array of scheduled_posts.json
    nextUuid,   \* next value _generate_uuid returns
    nextUrn,    \* next identifier the platform assigns
    creates,    \* create_scheduled_post calls so far
    clock,      \* wall clock
    pc,         \* pc[p]: where engine p is in its cycle
    due,        \* due[p]: due_posts / pending_comments being iterated
    idx,        \* idx[p]: position of the loop in due[p]
    parent,     \* parent[p]: result of get_post_by_uuid (<<>> is None)
    success,    \* success[p]: return value of _execute_post/_execute_comment
    req,        \* req[p]: the update_scheduled_post call in progress
    data,       \* data[p]: document read by the update in progress
    calls,      \* calls[p]: gateway calls made for the item being executed
    trace,      \* trace[p]: what the current cycle did with each item
    begin,      \* begin[p]: the document and the time the cycle started with
    torn,       \* the file is empty or holds text json.load rejects
    call,       \* call[p]: the store call client p is in, and its outcome
    index,      \* index[p]: the records _uuid_index of p was built from
    ops,        \* store calls made by the clients so far
    issued,     \* ids create_scheduled_post has returned so far
    asked,      \* the last query or prune call, its arguments and its answer
    daemon,     \* the daemon's self.running, where run() is, signals received
    held        \* held[p]: the flock p holds on the queue file

vars == <<doc, nextUuid, nextUrn, creates, clock, pc, due, idx, parent,
          success, req, data, calls, trace, begin, torn, call, index,
          ops, issued, asked, daemon, held>>

\* what the store clients of SpecStore add to the state, and the run loop
storeVars == <<torn, call, index, ops, issued, asked, daemon, held>>

\* what only the engine and the platform change
engineVars == <<nextUrn, creates, clock, due, idx, parent, success, req,
                calls, trace, begin, daemon, held>>

(* ----------------------------- the store ------------------------------ *)

Range(s) == {s[i] : i \in 1..Len(s)}

Ids(d) == {d[i].id : i \in 1..Len(d)}

MaxOf(S) == IF S = {} THEN 0 ELSE CHOOSE m \in S : \A n \in S : n <= m

\* get_scheduled_post: first record with that id (<<>> is None)
GetPost(d, id) ==
    IF \E i \in 1..Len(d) : d[i].id = id
    THEN <<d[CHOOSE i \in 1..Len(d) :
                d[i].id = id /\ \A j \in 1..(i-1) : d[j].id # id]>>
    ELSE <<>>

\* _build_uuid_index followed by _uuid_index.get: a later record with the
\* same uuid replaces an earlier one
GetPostByUuid(d, u) ==
    IF \E i \in 1..Len(d) : d[i].uuid = u
    THEN <<d[CHOOSE i \in 1..Len(d) :
                d[i].uuid = u /\ \A j \in (i+1)..Len(d) : d[j].uuid # u]>>
    ELSE <<>>

\* post.update(kwargs) for the keys the engine passes
Merge(item, f) ==
    [item EXCEPT !.status = IF f.status # "" THEN f.status ELSE @,
                 !.urn = IF f.setUrn THEN f.urn ELSE @,
                 !.blocked_reason = IF f.setReason THEN f.reason ELSE @]

Fields(st, setUrn, urn, setReason, reason) ==
    [status |-> st, setUrn |-> setUrn, urn |-> urn,
     setReason |-> setReason, reason |-> reason]

StatusOnly(st) == Fields(st, FALSE, NoUrn, FALSE, NoReason)

\* the urn of the result left out of the update
UrnForgotten(u) == Fields("", FALSE, NoUrn, FALSE, NoReason)

UrnOnly(u) == Fields("", TRUE, u, FALSE, NoReason)

\* the blocked_reason left out of the update
ReasonLost(r) == Fields("", FALSE, NoUrn, FALSE, NoReason)

ReasonOnly(r) == Fields("", FALSE, NoUrn, TRUE, r)
StatusReason(st, r) == Fields(st, FALSE, NoUrn, TRUE, r)

NoReq == [id |-> 0, f |-> StatusOnly(""), ret |-> "idle"]

NoBegin == [doc |-> <<>>, now |-> 0]

\* the daemon after __init__: self.running is False, run() not called, no
\* signal received
Constructed == [running |-> FALSE, at |-> "constructed", signalled |-> FALSE]

\* the fields are merged into every record
UpdatedDocAll(d, id, f) == [k \in 1..Len(d) |-> Merge(d[k], f)]

\* update_scheduled_post on the document it read: the first record with the
\* id is updated and the whole document is the one written
UpdatedDoc(d, id, f) ==
    LET i == CHOOSE i \in 1..Len(d) :
                d[i].id = id /\ \A j \in 1..(i-1) : d[j].id # id
    IN [d EXCEPT ![i] = Merge(d[i], f)]

\* a <= b on two timestamp strings of the same day, a written with
\* separator sepA and b with sepB: the strings agree on the date, then the
\* separators are compared (a space sorts before "T"), then the digits of
\* the time
StrLE(sepA, tA, sepB, tB) ==
    IF sepA = sepB THEN tA <= tB ELSE sepA = " "

\* list.sort(key=publish_at) on the publish_at strings: stable insertion
\* into a sorted list
RECURSIVE SortByPublishAt(_)
SortByPublishAt(s) ==
    IF Len(s) <= 1 THEN s
    ELSE LET rest == SortByPublishAt(SubSeq(s, 1, Len(s) - 1))
             x == s[Len(s)]
             k == Cardinality({i \in 1..Len(rest) :
                                  StrLE(rest[i].sep, rest[i].publish_at,
                                        x.sep, x.publish_at)})
         IN SubSeq(rest, 1, k) \o <<x>> \o SubSeq(rest, k + 1, Len(rest))

IsPendingPost(it) == it.status = "pending" /\ it.type = "post"

\* get_all_scheduled_posts(status='pending') filtered to type post, then to
\* publish_at <= now, in document order
DuePosts(d, now) ==
    SelectSeq(SelectSeq(d, IsPendingPost),
              LAMBDA it : it.publish_at <= now)

\* get_pending_comments: publish_at <= before_time compares the stored
\* string with datetime.now().isoformat()
PendingComments(d, now) ==
    SortByPublishAt(SelectSeq(d, LAMBDA it :
        /\ it.type = "comment" /\ it.status = "pending"
        /\ StrLE(it.sep, it.publish_at, "T", now)))

(* ------------------------- user operations ---------------------------- *)

\* the validation of create_scheduled_post
CreateValid(d, type, publish_at, parent_uuid) ==
    /\ type \in Types
    /\ type = "comment" => parent_uuid # NoUuid
    /\ type = "post" => parent_uuid = NoUuid
    /\ type = "comment" =>
         /\ GetPostByUuid(d, parent_uuid) # <<>>
         /\ publish_at >= GetPostByUuid(d, parent_uuid)[1].publish_at + MinDelay

\* the parent_uuid passed is not stored
NewPostNoParent(d, uuid, type, provider, publish_at, sep, status, urn, parent_uuid) ==
    [id |-> MaxOf(Ids(d)) + 1, uuid |-> uuid, type |-> type,
     provider |-> provider, publish_at |-> publish_at, sep |-> sep,
     status |-> status, urn |-> urn, parent_uuid |-> NoUuid,
     blocked_reason |-> NoReason]

\* the new id is the number of records plus one
NewPostByCount(d, uuid, type, provider, publish_at, sep, status, urn, parent_uuid) ==
    [id |-> Len(d) + 1, uuid |-> uuid, type |-> type,
     provider |-> provider, publish_at |-> publish_at, sep |-> sep,
     status |-> status, urn |-> urn, parent_uuid |-> parent_uuid,
     blocked_reason |-> NoReason]

\* new_post: publish_at is stored as the string it was passed as, here its
\* value and its separator
NewPost(d, uuid, type, provider, publish_at, sep, status, urn, parent_uuid) ==
    [id |-> MaxOf(Ids(d)) + 1, uuid |-> uuid, type |-> type,
     provider |-> provider, publish_at |-> publish_at, sep |-> sep,
     status |-> status, urn |-> urn, parent_uuid |-> parent_uuid,
     blocked_reason |-> NoReason]

AllIdle == \A p \in Procs : pc[p] = "idle"

\* the requests made: items are created pending and without urn, as the
\* post command of cli.py and the defaults of create_scheduled_post do;
\* comments are scheduled on linkedin; items for another platform carry the
\* earliest publish_at; the publish_at of a post is only ever parsed, so it
\* is taken as isoformat() writes it
UserInput(type, provider, publish_at, sep, status, urn) ==
    /\ status = "pending" /\ urn = NoUrn
    /\ type = "comment" => provider = "linkedin"
    /\ provider = "x" => publish_at = 0
    /\ type = "post" => sep = "T"

create_scheduled_post(max) ==
    /\ AllIdle
    /\ creates < max
    /\ \E type \in Types, provider \in Providers, publish_at \in Times,
          sep \in Seps, status \in Statuses, urn \in {NoUrn},
          parent_uuid \in 0..(nextUuid - 1) :
          /\ UserInput(type, provider, publish_at, sep, status, urn)
          /\ IF CreateValid(doc, type, publish_at, parent_uuid)
             THEN /\ doc' = Append(doc, NewPost(doc, nextUuid, type, provider,
                                        publish_at, sep, status, urn,
                                        parent_uuid))
                  /\ nextUuid' = nextUuid + 1
             ELSE UNCHANGED <<doc, nextUuid>>
    /\ creates' = creates + 1
    /\ issued' = issued \cup (Ids(doc') \ Ids(doc))
    /\ UNCHANGED <<nextUrn, clock, pc, due, idx, parent, success, req, data,
                   calls, trace, begin>>
    /\ UNCHANGED <<torn, call, index, ops, asked, daemon, held>>

delete_scheduled_post ==
    /\ AllIdle
    /\ \E id \in Ids(doc) :
          doc' = SelectSeq(doc, LAMBDA it : it.id # id)
    /\ UNCHANGED <<nextUuid, nextUrn, creates, clock, pc, due, idx, parent,
                   success, req, data, calls, trace, begin>>
    /\ UNCHANGED storeVars

\* create_scheduled_post called by another process while the engine is in
\* a cycle, the whole call between two steps of the engine: a pending post
create_in_cycle(max) ==
    /\ ~AllIdle
    /\ creates < max
    /\ \E publish_at \in Times :
          doc' = Append(doc, NewPost(doc, nextUuid, "post", "linkedin",
                                     publish_at, "T", "pending", NoUrn,
                                     NoUuid))
    /\ nextUuid' = nextUuid + 1
    /\ creates' = creates + 1
    /\ issued' = issued \cup (Ids(doc') \ Ids(doc))
    /\ UNCHANGED <<nextUrn, clock, pc, due, idx, parent, success, req, data,
                   calls, trace, begin>>
    /\ UNCHANGED <<torn, call, index, ops, asked, daemon, held>>

\* delete_scheduled_post called by another process while the engine is in
\* a cycle
delete_in_cycle ==
    /\ ~AllIdle
    /\ \E id \in Ids(doc) :
          doc' = SelectSeq(doc, LAMBDA it : it.id # id)
    /\ UNCHANGED <<nextUuid, nextUrn, creates, clock, pc, due, idx, parent,
                   success, req, data, calls, trace, begin>>
    /\ UNCHANGED storeVars

(* ------------------- what the outside world answers ------------------- *)

\* the content file: present and parseable, absent, or with bad front matter
FileStates == {"ok", "missing", "bad"}

\* a declared media file: uploaded, absent from disk, or refused
MediaStates == {"ok", "missing", "fail"}

\* the gateway's answer: an exception, a result without 'id', a result
\* with 'id'
CallStates == {"fail", "noid", "id"}

MediaLists ==
    UNION {{[k \in 1..n |-> [name |-> MediaName(k), st |-> s[k]]] :
                s \in [1..n -> MediaStates]} : n \in 0..MaxMedia}

\* file: the content file; cfg: the configuration has a linkedin section;
\* media: the 'media' list of the front matter with what happens to each
\* file; call: the answer to provider.post / provider.comment.  Only what
\* the code gets to look at is drawn: nothing after the content file failed,
\* no media and no call after the provider failed, no file after the first
\* one that failed and no call after it.
Envs ==
    {e \in [file : FileStates, cfg : BOOLEAN, media : MediaLists,
            call : CallStates] :
        /\ e.file # "ok" => e.cfg /\ e.media = <<>> /\ e.call = "fail"
        /\ ~e.cfg => e.media = <<>> /\ e.call = "fail"
        /\ \A k \in 1..Len(e.media) :
              e.media[k].st # "ok" => k = Len(e.media) /\ e.call = "fail"}

\* comments never read the media list
CommentEnvs == {e \in Envs : e.media = <<>>}

MediaUrn(name) == <<"urn:li:image", name>>

Call(op, item, arg, ok, ret) ==
    [op |-> op, item |-> item, arg |-> arg, ok |-> ok, ret |-> ret]

(* ----------------------------- the engine ----------------------------- *)

\* a provider handed out for every name and configuration
GetProviderAny(provider_name, cfg) == TRUE

\* _get_provider returns a provider (TRUE) or raises ValueError (FALSE)
GetProvider(provider_name, cfg) == provider_name = "linkedin" /\ cfg

\* the media loop going on to the next file after one that is missing or
\* refused
RECURSIVE UploadAllSkip(_, _, _, _, _)
UploadAllSkip(item, files, i, ids, cs) ==
    IF i > Len(files) THEN [ok |-> TRUE, ids |-> ids, calls |-> cs]
    ELSE IF files[i].st = "missing"
         THEN UploadAllSkip(item, files, i + 1, ids, cs)
    ELSE IF files[i].st = "fail"
         THEN UploadAllSkip(item, files, i + 1, ids,
                Append(cs, Call("upload", item, <<files[i].name>>, FALSE,
                                NoUrn)))
    ELSE UploadAllSkip(item, files, i + 1,
                       Append(ids, MediaUrn(files[i].name)),
                       Append(cs, Call("upload", item, <<files[i].name>>,
                                       TRUE, NoUrn)))

\* the media loop of _execute_post from position i on: ok is FALSE when the
\* loop raised; ids are the media_ids collected, calls the uploads made
RECURSIVE UploadAll(_, _, _, _, _)
UploadAll(item, files, i, ids, cs) ==
    IF i > Len(files) THEN [ok |-> TRUE, ids |-> ids, calls |-> cs]
    ELSE IF files[i].st = "missing"
         THEN [ok |-> FALSE, ids |-> ids, calls |-> cs]
    ELSE IF files[i].st = "fail"
         THEN [ok |-> FALSE, ids |-> ids,
               calls |-> Append(cs, Call("upload", item, <<files[i].name>>,
                                         FALSE, NoUrn))]
    ELSE UploadAll(item, files, i + 1,
                   Append(ids, MediaUrn(files[i].name)),
                   Append(cs, Call("upload", item, <<files[i].name>>,
                                   TRUE, NoUrn)))

\* cause names the step that made the execution fail
Result(ok, hasId, id, cause, cs) ==
    [ok |-> ok, hasId |-> hasId, id |-> id, cause |-> cause, calls |-> cs]

\* PostParser(file_path): the call to the content source
Parse(item, env) ==
    Call("parse", item, [k \in 1..Len(env.media) |-> env.media[k].name],
         env.file = "ok", NoUrn)

\* _execute_post up to the return of provider.post: ok is its return value,
\* hasId/id the 'id' of the result, calls the calls it made to the content
\* source and to the gateway
ExecutePost(post, env, urn) ==
    IF env.file = "missing" THEN Result(FALSE, FALSE, NoUrn, "file", <<>>)
    ELSE IF env.file = "bad"
         THEN Result(FALSE, FALSE, NoUrn, "file", <<Parse(post.id, env)>>)
    ELSE IF ~GetProvider(post.provider, env.cfg)
         THEN Result(FALSE, FALSE, NoUrn, "provider", <<Parse(post.id, env)>>)
    ELSE LET up == UploadAll(post.id, env.media, 1, <<>>,
                             <<Parse(post.id, env)>>)
         IN IF ~up.ok THEN Result(FALSE, FALSE, NoUrn, "media", up.calls)
            ELSE IF env.call = "fail"
                 THEN Result(FALSE, FALSE, NoUrn, "call",
                        Append(up.calls,
                               Call("post", post.id, up.ids, FALSE, NoUrn)))
            ELSE IF env.call = "noid"
                 THEN Result(TRUE, FALSE, NoUrn, "none",
                        Append(up.calls,
                               Call("post", post.id, up.ids, TRUE, NoUrn)))
            ELSE Result(TRUE, TRUE, urn, "none",
                        Append(up.calls,
                               Call("post", post.id, up.ids, TRUE, urn)))

\* a failed execution left for the next cycle
NewStatusRetry(ok) == IF ok THEN "published" ELSE "pending"

\* new_status in _process_posts and _process_comments
NewStatus(ok) == IF ok THEN "published" ELSE "failed"

\* the loop over due_posts left at the first post that failed
AfterPostAbort(ok, i, n) == IF ok /\ i < n THEN "post_exec" ELSE "comments"

\* the for loop over due_posts: where the engine goes after the status of
\* the item at position i was written
AfterPost(ok, i, n) == IF i < n THEN "post_exec" ELSE "comments"

\* the for loop over pending_comments
AfterComment(i, n) == IF i < n THEN "comment_parent" ELSE "done"

Called(cs, op) == \E k \in 1..Len(cs) : cs[k].op = op

\* what a cycle did with an item: what is "executed" or the branch of the
\* comment phase that did not execute; called: provider.post/comment was
\* invoked; ok: the return value of the execution; ret: the id the platform
\* returned; target: the target_id of provider.comment; cause as in Result
Entry(id, kind, what, called, ok, ret, target, cause) ==
    [id |-> id, kind |-> kind, what |-> what, called |-> called, ok |-> ok,
     ret |-> ret, target |-> target, cause |-> cause]

Target(cs) ==
    IF Called(cs, "comment") THEN cs[Len(cs)].arg[1] ELSE NoUrn

\* run_once / one iteration of run: _process_pending_posts begins
StartCycle(p) ==
    /\ pc[p] = "idle"
    /\ pc' = [pc EXCEPT ![p] = "posts"]
    /\ UNCHANGED <<doc, nextUuid, nextUrn, creates, clock, due, idx, parent,
                   success, req, data, calls, trace, begin>>
    /\ UNCHANGED storeVars

\* _process_posts up to the loop: read the pending posts, take the time,
\* keep the due ones
PostFetch(p) ==
    /\ pc[p] = "posts"
    /\ \E now \in Times :
          /\ now >= clock
          /\ clock' = now
          /\ due' = [due EXCEPT ![p] = DuePosts(doc, now)]
          /\ pc' = [pc EXCEPT ![p] =
                IF DuePosts(doc, now) = <<>> THEN "comments" ELSE "post_exec"]
          /\ begin' = [begin EXCEPT ![p] = [doc |-> doc, now |-> now]]
    /\ idx' = [idx EXCEPT ![p] = 1]
    /\ UNCHANGED <<doc, nextUuid, nextUrn, creates, parent, success, req,
                   data, calls, trace>>
    /\ UNCHANGED storeVars

\* _execute_post for due_posts[idx]: content file, provider, uploads,
\* provider.post; storing the urn is the update it hands over to the store
PostExec(p) ==
    /\ pc[p] = "post_exec"
    /\ nextUrn <= MaxUrn
    /\ \E env \in Envs :
         LET post == due[p][idx[p]]
             r == ExecutePost(post, env, nextUrn)
         IN /\ calls' = [calls EXCEPT ![p] = r.calls]
            /\ trace' = [trace EXCEPT ![p] =
                  Append(@, Entry(post.id, "post", "executed",
                                  Called(r.calls, "post"), r.ok, r.id,
                                  NoUrn, r.cause))]
            /\ success' = [success EXCEPT ![p] = r.ok]
            /\ nextUrn' = IF r.hasId THEN nextUrn + 1 ELSE nextUrn
            /\ IF r.ok /\ r.hasId
               THEN /\ req' = [req EXCEPT ![p] =
                          [id |-> post.id, f |-> UrnOnly(r.id),
                           ret |-> "post_status"]]
                    /\ pc' = [pc EXCEPT ![p] = "upd_read"]
               ELSE /\ pc' = [pc EXCEPT ![p] = "post_status"]
                    /\ UNCHANGED req
    /\ UNCHANGED <<doc, nextUuid, creates, clock, due, idx, parent, data,
                   begin>>
    /\ UNCHANGED storeVars

\* _process_posts after _execute_post returned: update the status
PostStatus(p) ==
    /\ pc[p] = "post_status"
    /\ req' = [req EXCEPT ![p] =
          [id |-> due[p][idx[p]].id, f |-> StatusOnly(NewStatus(success[p])),
           ret |-> "post_next"]]
    /\ pc' = [pc EXCEPT ![p] = "upd_read"]
    /\ UNCHANGED <<doc, nextUuid, nextUrn, creates, clock, due, idx, parent,
                   success, data, calls, trace, begin>>
    /\ UNCHANGED storeVars

\* next iteration of the loop over due_posts, or on to _process_comments
PostNext(p) ==
    /\ pc[p] = "post_next"
    /\ pc' = [pc EXCEPT ![p] = AfterPost(success[p], idx[p], Len(due[p]))]
    /\ idx' = [idx EXCEPT ![p] = IF idx[p] < Len(due[p]) THEN @ + 1 ELSE @]
    /\ calls' = [calls EXCEPT ![p] = <<>>]
    /\ UNCHANGED <<doc, nextUuid, nextUrn, creates, clock, due, parent,
                   success, req, data, trace, begin>>
    /\ UNCHANGED storeVars

\* update_scheduled_post, first half: _read_scheduled_posts
UpdateRead(p) ==
    /\ pc[p] = "upd_read"
    /\ data' = [data EXCEPT ![p] = doc]
    /\ pc' = [pc EXCEPT ![p] = "upd_write"]
    /\ UNCHANGED <<doc, nextUuid, nextUrn, creates, clock, due, idx, parent,
                   success, req, calls, trace, begin>>
    /\ UNCHANGED storeVars

\* update_scheduled_post, second half: modify the copy and write it back
\* when the id is in it
UpdateWrite(p) ==
    /\ pc[p] = "upd_write"
    /\ doc' = IF req[p].id \in Ids(data[p])
              THEN UpdatedDoc(data[p], req[p].id, req[p].f)
              ELSE doc
    /\ pc' = [pc EXCEPT ![p] = req[p].ret]
    /\ data' = [data EXCEPT ![p] = <<>>]
    /\ req' = [req EXCEPT ![p] = NoReq]
    /\ UNCHANGED <<nextUuid, nextUrn, creates, clock, due, idx, parent,
                   success, calls, trace, begin>>
    /\ UNCHANGED storeVars

\* a failed parent treated like one that is not published yet
ParentBranchWaitsForFailed(par) ==
    IF par = <<>> THEN "parent_missing"
    ELSE IF par[1].status = "published" THEN "execute"
    ELSE "deferred"

\* a parent that cannot be found treated like one that is not published yet
ParentBranchWaitsForMissing(par) ==
    IF par = <<>> THEN "deferred"
    ELSE IF par[1].status = "published" THEN "execute"
    ELSE IF par[1].status = "failed" THEN "parent_failed"
    ELSE "deferred"

\* a comment on a parent that is not published fails at once
ParentBranchNoDefer(par) ==
    IF par = <<>> THEN "parent_missing"
    ELSE IF par[1].status = "published" THEN "execute"
    ELSE "parent_failed"

\* the branch _process_comments takes on the parent it looked up
ParentBranch(par) ==
    IF par = <<>> THEN "parent_missing"
    ELSE IF par[1].status = "published" THEN "execute"
    ELSE IF par[1].status = "failed" THEN "parent_failed"
    ELSE "deferred"

\* the blocked_reason _process_comments stores with status failed
BranchReason(branch, comment, par) ==
    IF branch = "no_parent_uuid"
    THEN [msg |-> "No parent_uuid specified", ref |-> 0]
    ELSE IF branch = "parent_missing"
    THEN [msg |-> "Parent post <uuid> not found", ref |-> comment.parent_uuid]
    ELSE IF branch = "parent_failed"
    THEN [msg |-> "Parent post <id> failed to publish", ref |-> par[1].id]
    ELSE NoReason

\* the parent as the document had it when the cycle began
LookupParentStale(p, u) == GetPostByUuid(begin[p].doc, u)

\* the parent the comment phase works with: get_post_by_uuid reads the
\* document anew for every comment
LookupParent(p, u) == GetPostByUuid(doc, u)

\* _execute_comment without the check of the parent's urn
ExecuteCommentUnchecked(comment, par, env, urn) ==
    IF env.file = "missing"
    THEN [ok |-> FALSE, hasId |-> FALSE, id |-> NoUrn, cause |-> "file",
          calls |-> <<>>]
    ELSE [ok |-> env.call # "fail", hasId |-> env.call = "id",
          id |-> IF env.call = "id" THEN urn ELSE NoUrn,
          cause |-> IF env.call = "fail" THEN "call" ELSE "none",
          calls |-> <<Call("comment", comment.id, <<par.urn>>,
                          env.call # "fail",
                          IF env.call = "id" THEN urn ELSE NoUrn)>>]

\* _execute_comment up to the return of provider.comment; the cause "urn" is
\* the early return on a parent without urn
ExecuteComment(comment, par, env, urn) ==
    IF par.urn = NoUrn THEN Result(FALSE, FALSE, NoUrn, "urn", <<>>)
    ELSE IF env.file = "missing"
         THEN Result(FALSE, FALSE, NoUrn, "file", <<>>)
    ELSE IF env.file = "bad"
         THEN Result(FALSE, FALSE, NoUrn, "file", <<Parse(comment.id, env)>>)
    ELSE IF ~GetProvider(comment.provider, env.cfg)
         THEN Result(FALSE, FALSE, NoUrn, "provider",
                     <<Parse(comment.id, env)>>)
    ELSE IF env.call = "fail"
         THEN Result(FALSE, FALSE, NoUrn, "call",
                     <<Parse(comment.id, env),
                       Call("comment", comment.id, <<par.urn>>, FALSE,
                            NoUrn)>>)
    ELSE IF env.call = "noid"
         THEN Result(TRUE, FALSE, NoUrn, "none",
                     <<Parse(comment.id, env),
                       Call("comment", comment.id, <<par.urn>>, TRUE,
                            NoUrn)>>)
    ELSE Result(TRUE, TRUE, urn, "none",
                <<Parse(comment.id, env),
                  Call("comment", comment.id, <<par.urn>>, TRUE, urn)>>)

\* _process_comments up to the loop: take the time, read the due pending
\* comments sorted by publish_at
CommentFetch(p) ==
    /\ pc[p] = "comments"
    /\ \E now \in Times :
          /\ now >= clock
          /\ clock' = now
          /\ due' = [due EXCEPT ![p] = PendingComments(doc, now)]
          /\ pc' = [pc EXCEPT ![p] =
                IF PendingComments(doc, now) = <<>> THEN "done"
                ELSE "comment_parent"]
    /\ idx' = [idx EXCEPT ![p] = 1]
    /\ UNCHANGED <<doc, nextUuid, nextUrn, creates, parent, success, req,
                   data, calls, trace, begin>>
    /\ UNCHANGED storeVars

\* loop body of _process_comments up to the branch on the parent's status
CommentParent(p) ==
    /\ pc[p] = "comment_parent"
    /\ LET comment == due[p][idx[p]]
           par == LookupParent(p, comment.parent_uuid)
           branch == IF comment.parent_uuid = NoUuid THEN "no_parent_uuid"
                     ELSE ParentBranch(par)
       IN /\ parent' = [parent EXCEPT ![p] =
                IF comment.parent_uuid = NoUuid THEN <<>> ELSE par]
          /\ IF branch = "execute"
             THEN /\ pc' = [pc EXCEPT ![p] = "comment_exec"]
                  /\ UNCHANGED <<req, trace>>
             ELSE IF branch = "deferred"
             THEN /\ pc' = [pc EXCEPT ![p] = "comment_next"]
                  /\ trace' = [trace EXCEPT ![p] =
                        Append(@, Entry(comment.id, "comment", branch, FALSE,
                                        FALSE, NoUrn, NoUrn, "parent"))]
                  /\ UNCHANGED req
             ELSE /\ req' = [req EXCEPT ![p] =
                        [id |-> comment.id,
                         f |-> StatusReason("failed",
                                  BranchReason(branch, comment, par)),
                         ret |-> "comment_next"]]
                  /\ pc' = [pc EXCEPT ![p] = "upd_read"]
                  /\ trace' = [trace EXCEPT ![p] =
                        Append(@, Entry(comment.id, "comment", branch, FALSE,
                                        FALSE, NoUrn, NoUrn, "parent"))]
    /\ UNCHANGED <<doc, nextUuid, nextUrn, creates, clock, due, idx, success,
                   data, calls, begin>>
    /\ UNCHANGED storeVars

\* _execute_comment for pending_comments[idx] and the parent just read
CommentExec(p) ==
    /\ pc[p] = "comment_exec"
    /\ nextUrn <= MaxUrn
    /\ \E env \in CommentEnvs :
         LET comment == due[p][idx[p]]
             r == ExecuteComment(comment, parent[p][1], env, nextUrn)
         IN /\ calls' = [calls EXCEPT ![p] = r.calls]
            /\ trace' = [trace EXCEPT ![p] =
                  Append(@, Entry(comment.id, "comment", "executed",
                                  Called(r.calls, "comment"), r.ok, r.id,
                                  Target(r.calls), r.cause))]
            /\ success' = [success EXCEPT ![p] = r.ok]
            /\ nextUrn' = IF r.hasId THEN nextUrn + 1 ELSE nextUrn
            /\ IF r.cause = "urn"
               THEN /\ req' = [req EXCEPT ![p] =
                          [id |-> comment.id,
                           f |-> ReasonOnly(
                                   [msg |-> "Parent post <id> has no URN available",
                                    ref |-> parent[p][1].id]),
                           ret |-> "comment_status"]]
                    /\ pc' = [pc EXCEPT ![p] = "upd_read"]
               ELSE IF r.ok /\ r.hasId
               THEN /\ req' = [req EXCEPT ![p] =
                          [id |-> comment.id, f |-> UrnOnly(r.id),
                           ret |-> "comment_status"]]
                    /\ pc' = [pc EXCEPT ![p] = "upd_read"]
               ELSE /\ pc' = [pc EXCEPT ![p] = "comment_status"]
                    /\ UNCHANGED req
    /\ UNCHANGED <<doc, nextUuid, creates, clock, due, idx, parent, data,
                   begin>>
    /\ UNCHANGED storeVars

\* _process_comments after _execute_comment returned: update the status
CommentStatus(p) ==
    /\ pc[p] = "comment_status"
    /\ req' = [req EXCEPT ![p] =
          [id |-> due[p][idx[p]].id, f |-> StatusOnly(NewStatus(success[p])),
           ret |-> "comment_next"]]
    /\ pc' = [pc EXCEPT ![p] = "upd_read"]
    /\ UNCHANGED <<doc, nextUuid, nextUrn, creates, clock, due, idx, parent,
                   success, data, calls, trace, begin>>
    /\ UNCHANGED storeVars

\* next iteration of the loop over pending_comments, or the end of the cycle
CommentNext(p) ==
    /\ pc[p] = "comment_next"
    /\ pc' = [pc EXCEPT ![p] = AfterComment(idx[p], Len(due[p]))]
    /\ idx' = [idx EXCEPT ![p] = IF idx[p] < Len(due[p]) THEN @ + 1 ELSE @]
    /\ calls' = [calls EXCEPT ![p] = <<>>]
    /\ parent' = [parent EXCEPT ![p] = <<>>]
    /\ UNCHANGED <<doc, nextUuid, nextUrn, creates, clock, due, success, req,
                   data, trace, begin>>
    /\ UNCHANGED storeVars

\* _process_pending_posts returns
Finish(p) ==
    /\ pc[p] = "done"
    /\ pc' = [pc EXCEPT ![p] = "idle"]
    /\ due' = [due EXCEPT ![p] = <<>>]
    /\ idx' = [idx EXCEPT ![p] = 1]
    /\ success' = [success EXCEPT ![p] = FALSE]
    /\ trace' = [trace EXCEPT ![p] = <<>>]
    /\ begin' = [begin EXCEPT ![p] = NoBegin]
    /\ UNCHANGED <<doc, nextUuid, nextUrn, creates, clock, parent, req, data,
                   calls>>
    /\ UNCHANGED storeVars

(* ---------------------- the store raising in a cycle ------------------ *)

\* the positions of a cycle where the engine calls the store
StoreCalls == {"posts", "comments", "comment_parent", "upd_read", "upd_write"}

\* only _execute_post and _execute_comment catching what the store raises
CaughtByInner(at, ret) ==
    IF at \in {"upd_read", "upd_write"} /\ ret = "post_status"
    THEN "_execute_post"
    ELSE IF at \in {"upd_read", "upd_write"} /\ ret = "comment_status"
    THEN "_execute_comment"
    ELSE "nobody"

\* the innermost try block around the store call the engine is at: `at` is
\* the position, `ret` where the update under way returns to.  The updates
\* of the urn and of "no URN available" are made inside _execute_post and
\* _execute_comment, every other store call in the body of a phase
CaughtBy(at, ret) ==
    IF at \in {"upd_read", "upd_write"} /\ ret = "post_status"
    THEN "_execute_post"
    ELSE IF at \in {"upd_read", "upd_write"} /\ ret = "comment_status"
    THEN "_execute_comment"
    ELSE IF at = "posts" \/ (at \in {"upd_read", "upd_write"} /\ ret = "post_next")
    THEN "_process_posts"
    ELSE IF \/ at \in {"comments", "comment_parent"}
            \/ (at \in {"upd_read", "upd_write"} /\ ret = "comment_next")
    THEN "_process_comments"
    ELSE "nobody"

\* where the engine goes on after the except clause of the handler: the
\* execution returns False to its phase, a phase returns to
\* _process_pending_posts; "escaped" is the exception leaving
\* _process_pending_posts, which run_once does not catch
AfterRaise(handler) ==
    IF handler = "_execute_post" THEN "post_status"
    ELSE IF handler = "_execute_comment" THEN "comment_status"
    ELSE IF handler = "_process_posts" THEN "comments"
    ELSE IF handler = "_process_comments" THEN "done"
    ELSE "escaped"

\* the phase a position belongs to
PhaseOf(at, ret) ==
    IF at = "posts" \/ ret \in {"post_status", "post_next"} THEN "post"
    ELSE "comment"

\* the store raises in the call the engine is making (an unreadable or
\* unwritable queue file): the call has no effect and the exception goes to
\* the innermost handler
Raise(p) ==
    /\ pc[p] \in StoreCalls
    /\ LET handler == CaughtBy(pc[p], req[p].ret)
           item == IF pc[p] \in {"upd_read", "upd_write"} THEN req[p].id
                   ELSE IF pc[p] = "comment_parent" THEN due[p][idx[p]].id
                   ELSE 0
       IN /\ pc' = [pc EXCEPT ![p] = AfterRaise(handler)]
          /\ success' = [success EXCEPT ![p] =
                IF handler \in {"_execute_post", "_execute_comment"}
                THEN FALSE ELSE @]
          /\ trace' = [trace EXCEPT ![p] =
                Append(@, Entry(item, PhaseOf(pc[p], req[p].ret), "raised",
                                FALSE, FALSE, NoUrn, NoUrn, handler))]
    /\ req' = [req EXCEPT ![p] = NoReq]
    /\ data' = [data EXCEPT ![p] = <<>>]
    /\ UNCHANGED <<doc, nextUuid, nextUrn, creates, clock, due, idx, parent,
                   calls, begin>>
    /\ UNCHANGED storeVars

(* ----------------------------- the run loop --------------------------- *)

\* Engine 1 is the daemon.  daemon.at is where run() is: "constructed"
\* (run not called yet), "check" (at the loop condition), "cycle" (inside
\* _process_pending_posts), "sleep" (inside time.sleep), "returned".
\* _signal_handler is run by the interpreter between two bytecodes of the
\* main thread, so it is a step that may come between any two steps.

\* a loop that never looks at the flag
KeepsLoopingAlways(running) == TRUE

\* the condition of the while loop of run
KeepsLooping(running) == running

\* run up to the loop: self.running = True
RunEnter ==
    /\ daemon.at = "constructed"
    /\ daemon' = [daemon EXCEPT !.running = TRUE, !.at = "check"]
    /\ UNCHANGED <<doc, nextUuid, nextUrn, creates, clock, pc, due, idx,
                   parent, success, req, data, calls, trace, begin, torn,
                   call, index, ops, issued, asked, held>>

\* while self.running: into _process_pending_posts, or out of the loop and
\* return
LoopCheck ==
    /\ daemon.at = "check"
    /\ IF KeepsLooping(daemon.running)
       THEN /\ daemon' = [daemon EXCEPT !.at = "cycle"]
            /\ pc' = [pc EXCEPT ![1] = "posts"]
       ELSE /\ daemon' = [daemon EXCEPT !.at = "returned"]
            /\ UNCHANGED pc
    /\ UNCHANGED <<doc, nextUuid, nextUrn, creates, clock, due, idx, parent,
                   success, req, data, calls, trace, begin, torn, call,
                   index, ops, issued, asked, held>>

\* the steps of a cycle after its start
Cycle(p) ==
    \/ PostFetch(p)
    \/ PostExec(p)
    \/ PostStatus(p)
    \/ PostNext(p)
    \/ CommentFetch(p)
    \/ CommentParent(p)
    \/ CommentExec(p)
    \/ CommentStatus(p)
    \/ CommentNext(p)
    \/ UpdateRead(p)
    \/ UpdateWrite(p)
    \/ Finish(p)

\* _process_pending_posts has returned: time.sleep(self.check_interval)
Sleep ==
    /\ daemon.at = "cycle"
    /\ pc[1] = "idle"
    /\ daemon' = [daemon EXCEPT !.at = "sleep"]
    /\ UNCHANGED <<doc, nextUuid, nextUrn, creates, clock, pc, due, idx,
                   parent, success, req, data, calls, trace, begin, torn,
                   call, index, ops, issued, asked, held>>

\* time.sleep returns: back to the loop condition
Wake ==
    /\ daemon.at = "sleep"
    /\ daemon' = [daemon EXCEPT !.at = "check"]
    /\ UNCHANGED <<doc, nextUuid, nextUrn, creates, clock, pc, due, idx,
                   parent, success, req, data, calls, trace, begin, torn,
                   call, index, ops, issued, asked, held>>

\* _signal_handler, on SIGINT or SIGTERM at any time after __init__
SignalHandler ==
    /\ daemon' = [daemon EXCEPT !.running = FALSE, !.signalled = TRUE]
    /\ UNCHANGED <<doc, nextUuid, nextUrn, creates, clock, pc, due, idx,
                   parent, success, req, data, calls, trace, begin, torn,
                   call, index, ops, issued, asked, held>>

(* ----------------- the queue file under several clients --------------- *)

\* A client p is a process holding its own SchedulerStorage on the shared
\* file.  json.load runs under the shared lock and json.dump under the
\* exclusive lock, so each is one step and the two never overlap; open(.., 'w')
\* truncates the file before the exclusive lock is asked for and is a step
\* of its own.  `doc` is what the last json.dump wrote; `torn` says that the
\* file does not hold that text any more.

\* a key the record does not have
Absent == -1
AbsentType == "absent"
AbsentReason == [msg |-> "absent", ref |-> 0]

\* a uuid no record ever had
UnknownUuid == 99

\* a uuid the caller of create_scheduled_post supplies as uuid_str
CustomUuid == 98

\* no query or prune call was made yet
NoQuery == [name |-> "none"]

\* a record written before uuid, type, urn, parent_uuid and blocked_reason
\* existed
LegacyPost ==
    [id |-> 1, uuid |-> Absent, type |-> AbsentType, provider |-> "linkedin",
     publish_at |-> 0, sep |-> "T", status |-> "pending", urn |-> Absent,
     parent_uuid |-> Absent, blocked_reason |-> AbsentReason]

\* migration that marks the record it fills in as failed
EnsurePostFieldsFails(post, uuid) ==
    [post EXCEPT !.uuid = IF @ = Absent THEN uuid ELSE @,
                 !.type = IF @ = AbsentType THEN "post" ELSE @,
                 !.urn = IF @ = Absent THEN NoUrn ELSE @,
                 !.parent_uuid = IF @ = Absent THEN NoUuid ELSE @,
                 !.blocked_reason = IF @ = AbsentReason THEN NoReason ELSE @,
                 !.status = IF post.uuid = Absent THEN "failed" ELSE @]

\* migration that gives every record it is called on a new uuid
EnsurePostFieldsNewUuid(post, uuid) ==
    [post EXCEPT !.uuid = uuid,
                 !.type = IF @ = AbsentType THEN "post" ELSE @,
                 !.urn = IF @ = Absent THEN NoUrn ELSE @,
                 !.parent_uuid = IF @ = Absent THEN NoUuid ELSE @,
                 !.blocked_reason = IF @ = AbsentReason THEN NoReason ELSE @]

\* migration that takes a record without type for a comment
EnsurePostFieldsAsComment(post, uuid) ==
    [post EXCEPT !.uuid = IF @ = Absent THEN uuid ELSE @,
                 !.type = IF @ = AbsentType THEN "comment" ELSE @,
                 !.urn = IF @ = Absent THEN NoUrn ELSE @,
                 !.parent_uuid = IF @ = Absent THEN NoUuid ELSE @,
                 !.blocked_reason = IF @ = AbsentReason THEN NoReason ELSE @]

\* _ensure_post_fields: each missing key gets its default, a key that is
\* there is left alone
EnsurePostFields(post, uuid) ==
    [post EXCEPT !.uuid = IF @ = Absent THEN uuid ELSE @,
                 !.type = IF @ = AbsentType THEN "post" ELSE @,
                 !.urn = IF @ = Absent THEN NoUrn ELSE @,
                 !.parent_uuid = IF @ = Absent THEN NoUuid ELSE @,
                 !.blocked_reason = IF @ = AbsentReason THEN NoReason ELSE @]

\* records for which _ensure_post_fields calls _generate_uuid
WithoutUuid(d) == {i \in 1..Len(d) : d[i].uuid = Absent}

\* the migration loop of _read_scheduled_posts: u0 is the first uuid
\* _generate_uuid returns
Migrate(d, u0) ==
    [i \in 1..Len(d) |->
        EnsurePostFields(d[i],
            u0 + Cardinality({j \in WithoutUuid(d) : j < i}))]

\* length of the text json.dump writes for a status
StatusLen(st) ==
    CASE st = "pending" -> 7
      [] st = "published" -> 9
      [] st = "failed" -> 6

\* length of the text json.dump writes for a record, up to what all records
\* share: a key that is missing, or null in place of a string, makes the
\* text shorter
ItemSize(it) ==
    100 + StatusLen(it.status)
        + (IF it.uuid = Absent THEN 0 ELSE 40)
        + (IF it.type = AbsentType THEN 0
           ELSE IF it.type = "comment" THEN 20 ELSE 17)
        + (IF it.urn = Absent THEN 0 ELSE IF it.urn = NoUrn THEN 10 ELSE 30)
        + (IF it.parent_uuid = Absent THEN 0
           ELSE IF it.parent_uuid = NoUuid THEN 20 ELSE 52)
        + (IF it.blocked_reason = AbsentReason THEN 0
           ELSE IF it.blocked_reason = NoReason THEN 20 ELSE 60)

RECURSIVE Size(_)
Size(d) == IF d = <<>> THEN 0 ELSE ItemSize(Head(d)) + Size(Tail(d))

\* a store call and its arguments; a field the call does not take is 0; u is
\* the uuid to look up, or the uuid_str passed to create (0 for none)
Request(name, type, publish_at, parent_uuid, id, u) ==
    [name |-> name, type |-> type, publish_at |-> publish_at,
     parent_uuid |-> parent_uuid, id |-> id, u |-> u]

\* the calls a client makes: create_scheduled_post with a kind, a time and a
\* parent (none, one it was given earlier, or one that never existed), or
\* with a uuid of the caller's,
\* update_scheduled_post(id, status='published'), delete_scheduled_post(id),
\* get_post_by_uuid(uuid) and prune_scheduled_posts() with its defaults (no
\* dates, status 'published'); known is the set of uuids handed out so far
Requests(known) ==
    {Request("create", "story", 0, NoUuid, 0, 0)}
    \cup {Request("create", "post", 0, NoUuid, 0, CustomUuid)}
    \cup {Request("create", "post", 0, u, 0, 0) :
              u \in {NoUuid} \cup (known \cap {1})}
    \cup {Request("create", "comment", t, u, 0, 0) :
              t \in {0, MinDelay},
              u \in {NoUuid, UnknownUuid} \cup (known \cap {1})}
    \cup {Request("update", "", 0, 0, id, 0) : id \in 1..2}
    \cup {Request("delete", "", 0, 0, id, 0) : id \in 1..2}
    \cup {Request("get", "", 0, 0, 0, u) : u \in known \cap (1..2)}
    \cup {Request("prune", "", 0, 0, 0, 0)}

\* call[p]: the request, the part of create it is in (the parent lookup or the
\* read-append-write), whether the write ahead is the write-back of a
\* migration, the outcome ("" while it runs), the record returned, the
\* document the last json.load of the call returned, the number of
\* json.dump the call made
NoCall ==
    [rq |-> Request("none", "", 0, 0, 0, 0), phase |-> "", mig |-> FALSE,
     res |-> "", item |-> <<>>, seen |-> <<>>, wrote |-> 0]

\* every request passes the checks made before the file is opened
StaticValidLax(type, parent_uuid) == TRUE

\* the checks of create_scheduled_post made before the file is opened
StaticValid(type, parent_uuid) ==
    /\ type \in Types
    /\ type = "comment" => parent_uuid # NoUuid
    /\ type = "post" => parent_uuid = NoUuid

\* the index of an earlier read is kept when there is one
IndexKept(old, read) == IF old = <<>> THEN read ELSE old

\* _build_uuid_index after a read: the index is built from the records just
\* read, whatever it held
IndexAfterRead(old, read) == read

\* what a call does with the document d that _read_scheduled_posts returned,
\* ix being the index built from it and u0 the next uuid: where the call
\* goes, its outcome, the document it is about to write, the uuids it took
AfterRead(o, d, ix, u0) ==
    LET rq == o.rq
        stop(res, item) ==
            [pc |-> "idle", phase |-> o.phase, res |-> res, item |-> item,
             data |-> <<>>, uuids |-> 0]
        write(dd, item, n) ==
            [pc |-> "s_open", phase |-> o.phase, res |-> "", item |-> item,
             data |-> dd, uuids |-> n]
    IN CASE rq.name = "get" ->
              IF GetPostByUuid(ix, rq.u) = <<>>
              THEN stop("none", <<>>)
              ELSE stop("found", GetPostByUuid(ix, rq.u))
         [] rq.name = "create" /\ o.phase = "lookup" ->
              IF CreateValid(ix, rq.type, rq.publish_at, rq.parent_uuid)
              THEN [pc |-> "s_load", phase |-> "main", res |-> "",
                    item |-> <<>>, data |-> <<>>, uuids |-> 0]
              ELSE stop("ValueError", <<>>)
         [] rq.name = "create" /\ o.phase = "main" ->
              LET own == rq.u = NoUuid
                  new == NewPost(d, IF own THEN u0 ELSE rq.u, rq.type,
                                 "linkedin", rq.publish_at, "T", "pending",
                                 NoUrn, rq.parent_uuid)
              IN write(Append(d, new), <<new>>, IF own THEN 1 ELSE 0)
         [] rq.name = "update" ->
              IF rq.id \in Ids(d)
              THEN write(UpdatedDoc(d, rq.id, StatusOnly("published")),
                         <<>>, 0)
              ELSE stop("False", <<>>)
         [] rq.name = "delete" ->
              IF rq.id \in Ids(d)
              THEN write(SelectSeq(d, LAMBDA it : it.id # rq.id), <<>>, 0)
              ELSE stop("False", <<>>)
         [] rq.name = "prune" ->
              IF \E it \in Range(d) : it.status = "published"
              THEN write(SelectSeq(d, LAMBDA it : it.status # "published"),
                         <<>>, 0)
              ELSE stop("0", <<>>)

\* a client calls the store; a create that fails the first checks raises
\* ValueError at once
StoreCall(p) ==
    /\ pc[p] = "idle"
    /\ ops < MaxStoreOps
    /\ \E rq \in Requests(1..(nextUuid - 1)) :
          IF rq.name = "create" /\ ~StaticValid(rq.type, rq.parent_uuid)
          THEN /\ call' = [call EXCEPT ![p] =
                            [NoCall EXCEPT !.rq = rq, !.res = "ValueError"]]
               /\ UNCHANGED pc
          ELSE /\ call' = [call EXCEPT ![p] =
                            [NoCall EXCEPT !.rq = rq,
                                !.phase = IF rq.name = "create"
                                             /\ rq.type = "comment"
                                          THEN "lookup" ELSE "main"]]
               /\ pc' = [pc EXCEPT ![p] = "s_load"]
    /\ ops' = ops + 1
    /\ UNCHANGED <<doc, nextUuid, data, torn, index, issued, asked>>
    /\ UNCHANGED engineVars

\* _read_scheduled_posts: json.load under the shared lock, the migration of
\* the records read, the index; a migration is written back before the
\* call goes on
StoreLoad(p) ==
    /\ pc[p] = "s_load"
    /\ IF torn
       THEN /\ call' = [call EXCEPT ![p].res = "JSONDecodeError"]
            /\ pc' = [pc EXCEPT ![p] = "idle"]
            /\ UNCHANGED <<nextUuid, data, index>>
       ELSE LET m == Migrate(doc, nextUuid)
                u0 == nextUuid + Cardinality(WithoutUuid(doc))
                ix == IndexAfterRead(index[p], m)
                a == AfterRead(call[p], m, ix, u0)
            IN /\ index' = [index EXCEPT ![p] = ix]
               /\ IF m # doc
                  THEN /\ call' = [call EXCEPT ![p].mig = TRUE, ![p].seen = doc]
                       /\ pc' = [pc EXCEPT ![p] = "s_open"]
                       /\ data' = [data EXCEPT ![p] = m]
                       /\ nextUuid' = u0
                  ELSE /\ call' = [call EXCEPT ![p].phase = a.phase,
                                           ![p].res = a.res,
                                           ![p].item = a.item,
                                           ![p].seen = doc]
                       /\ pc' = [pc EXCEPT ![p] = a.pc]
                       /\ data' = [data EXCEPT ![p] = a.data]
                       /\ nextUuid' = u0 + a.uuids
    /\ UNCHANGED <<doc, torn, ops, issued, asked>>
    /\ UNCHANGED engineVars

\* open(scheduled_posts_file, 'w') in _write_scheduled_posts
StoreOpen(p) ==
    /\ pc[p] = "s_open"
    /\ torn' = TRUE
    /\ pc' = [pc EXCEPT ![p] = "s_dump"]
    /\ UNCHANGED <<doc, nextUuid, data, call, index, ops, issued, asked>>
    /\ UNCHANGED engineVars

\* json.dump under the exclusive lock, from the start of the file: text
\* another client wrote since this one truncated the file stays behind the
\* new text when the new text is shorter.  The index is rebuilt; after the
\* write-back of a migration the call goes on with the migrated records.
StoreDump(p) ==
    /\ pc[p] = "s_dump"
    /\ doc' = data[p]
    /\ torn' = (~torn /\ Size(data[p]) < Size(doc))
    /\ index' = [index EXCEPT ![p] = data[p]]
    /\ IF call[p].mig
       THEN LET a == AfterRead(call[p], data[p], data[p], nextUuid)
            IN /\ call' = [call EXCEPT ![p].mig = FALSE,
                                   ![p].phase = a.phase,
                                   ![p].res = a.res,
                                   ![p].item = a.item,
                                   ![p].wrote = @ + 1]
               /\ pc' = [pc EXCEPT ![p] = a.pc]
               /\ data' = [data EXCEPT ![p] = a.data]
               /\ nextUuid' = nextUuid + a.uuids
       ELSE /\ call' = [call EXCEPT ![p].res = "ok", ![p].wrote = @ + 1]
            /\ pc' = [pc EXCEPT ![p] = "idle"]
            /\ data' = [data EXCEPT ![p] = <<>>]
            /\ UNCHANGED nextUuid
    /\ issued' = IF ~call[p].mig /\ call[p].rq.name = "create"
                 THEN issued \cup {call[p].item[1].id}
                 ELSE issued
    /\ UNCHANGED <<ops, asked>>
    /\ UNCHANGED engineVars

(* ------------------------- the locks on the file ---------------------- *)

\* The same store calls with fcntl.flock told apart from the file access it
\* protects.  A read is: open 'r', flock(LOCK_SH), json.load, flock(LOCK_UN)
\* in the finally clause; a write is: open 'w', flock(LOCK_EX), json.dump,
\* flock(LOCK_UN) in the finally clause.  flock blocks while another
\* process holds a lock that excludes the one asked for.

\* the calls made here: update and delete of the first record, a lookup
LockRequests(known) ==
    {Request("update", "", 0, 0, 1, 0), Request("delete", "", 0, 0, 1, 0)}
    \cup {Request("get", "", 0, 0, 0, u) : u \in known \cap {1}}

\* flock(mode) of p returns at once
CanLock(p, mode) ==
    IF mode = "sh"
    THEN \A q \in Procs \ {p} : held[q] # "ex"
    ELSE \A q \in Procs \ {p} : held[q] = "none"

\* the unlock left out of the path an exception takes
UnlocksOnSuccess(raised) == ~raised

\* try: ... finally: flock(LOCK_UN): the unlock runs whether or not the
\* file access raised
Unlocks(raised) == TRUE

\* where a call goes after a file access: an exception or a result ends it,
\* otherwise a write is ahead
AfterAccess(res) == IF res # "" THEN "idle" ELSE "l_open"

LockCall(p) ==
    /\ pc[p] = "idle"
    /\ ops < MaxStoreOps
    /\ \E rq \in LockRequests(1..(nextUuid - 1)) :
          call' = [call EXCEPT ![p] =
                      [NoCall EXCEPT !.rq = rq, !.phase = "main"]]
    /\ pc' = [pc EXCEPT ![p] = "l_flock_sh"]
    /\ ops' = ops + 1
    /\ UNCHANGED <<doc, nextUuid, data, torn, index, issued, asked, held>>
    /\ UNCHANGED <<nextUrn, creates, clock, due, idx, parent, success, req,
                   calls, trace, begin, daemon>>

\* fcntl.flock(f.fileno(), fcntl.LOCK_SH) returns
FlockSh(p) ==
    /\ pc[p] = "l_flock_sh"
    /\ CanLock(p, "sh")
    /\ held' = [held EXCEPT ![p] = "sh"]
    /\ pc' = [pc EXCEPT ![p] = "l_load"]
    /\ UNCHANGED <<doc, nextUuid, data, torn, call, index, ops, issued,
                   asked>>
    /\ UNCHANGED <<nextUrn, creates, clock, due, idx, parent, success, req,
                   calls, trace, begin, daemon>>

\* json.load: raises on a file that is empty or cut short; the migration
\* and what the call does with the document are computed on the copy
LockedLoad(p) ==
    /\ pc[p] = "l_load"
    /\ IF torn
       THEN /\ call' = [call EXCEPT ![p].res = "JSONDecodeError"]
            /\ pc' = [pc EXCEPT ![p] =
                        IF Unlocks(TRUE) THEN "l_unlock" ELSE "idle"]
            /\ UNCHANGED <<nextUuid, data, index>>
       ELSE LET m == Migrate(doc, nextUuid)
                u0 == nextUuid + Cardinality(WithoutUuid(doc))
                ix == IndexAfterRead(index[p], m)
                a == AfterRead(call[p], m, ix, u0)
            IN /\ index' = [index EXCEPT ![p] = ix]
               /\ nextUuid' = u0
               /\ IF m # doc
                  THEN /\ call' = [call EXCEPT ![p].mig = TRUE,
                                               ![p].seen = doc]
                       /\ data' = [data EXCEPT ![p] = m]
                  ELSE /\ call' = [call EXCEPT ![p].res = a.res,
                                               ![p].item = a.item,
                                               ![p].seen = doc]
                       /\ data' = [data EXCEPT ![p] = a.data]
               /\ pc' = [pc EXCEPT ![p] =
                           IF Unlocks(FALSE) THEN "l_unlock"
                           ELSE AfterAccess(call'[p].res)]
    /\ UNCHANGED <<doc, torn, ops, issued, asked, held>>
    /\ UNCHANGED <<nextUrn, creates, clock, due, idx, parent, success, req,
                   calls, trace, begin, daemon>>

\* fcntl.flock(f.fileno(), fcntl.LOCK_UN) in the finally clause of a read
\* or of a write; an exception then leaves the call
Unlock(p) ==
    /\ pc[p] = "l_unlock"
    /\ held' = [held EXCEPT ![p] = "none"]
    /\ pc' = [pc EXCEPT ![p] = AfterAccess(call[p].res)]
    /\ UNCHANGED <<doc, nextUuid, data, torn, call, index, ops, issued,
                   asked>>
    /\ UNCHANGED <<nextUrn, creates, clock, due, idx, parent, success, req,
                   calls, trace, begin, daemon>>

\* open(.., 'w') of _write_scheduled_posts: the file is cut to nothing
LockedOpen(p) ==
    /\ pc[p] = "l_open"
    /\ torn' = TRUE
    /\ pc' = [pc EXCEPT ![p] = "l_flock_ex"]
    /\ UNCHANGED <<doc, nextUuid, data, call, index, ops, issued, asked,
                   held>>
    /\ UNCHANGED <<nextUrn, creates, clock, due, idx, parent, success, req,
                   calls, trace, begin, daemon>>

\* fcntl.flock(f.fileno(), fcntl.LOCK_EX) returns
FlockEx(p) ==
    /\ pc[p] = "l_flock_ex"
    /\ CanLock(p, "ex")
    /\ held' = [held EXCEPT ![p] = "ex"]
    /\ pc' = [pc EXCEPT ![p] = "l_dump"]
    /\ UNCHANGED <<doc, nextUuid, data, torn, call, index, ops, issued,
                   asked>>
    /\ UNCHANGED <<nextUrn, creates, clock, due, idx, parent, success, req,
                   calls, trace, begin, daemon>>

\* json.dump: writes the copy, or raises OSError (no space left) and leaves
\* the file cut short; after the write-back of a migration the call goes on
\* with the migrated records
LockedDump(p) ==
    /\ pc[p] = "l_dump"
    /\ \E ok \in BOOLEAN :
          IF ok
          THEN /\ doc' = data[p]
               /\ torn' = (~torn /\ Size(data[p]) < Size(doc))
               /\ index' = [index EXCEPT ![p] = data[p]]
               /\ IF call[p].mig
                  THEN LET a == AfterRead(call[p], data[p], data[p], nextUuid)
                       IN /\ call' = [call EXCEPT ![p].mig = FALSE,
                                              ![p].res = a.res,
                                              ![p].item = a.item,
                                              ![p].wrote = @ + 1]
                          /\ data' = [data EXCEPT ![p] = a.data]
                  ELSE /\ call' = [call EXCEPT ![p].res = "ok",
                                               ![p].wrote = @ + 1]
                       /\ data' = [data EXCEPT ![p] = <<>>]
               /\ pc' = [pc EXCEPT ![p] =
                           IF Unlocks(FALSE) THEN "l_unlock"
                           ELSE AfterAccess(call'[p].res)]
          ELSE /\ call' = [call EXCEPT ![p].res = "OSError"]
               /\ torn' = TRUE
               /\ pc' = [pc EXCEPT ![p] =
                           IF Unlocks(TRUE) THEN "l_unlock" ELSE "idle"]
               /\ UNCHANGED <<doc, data, index>>
    /\ UNCHANGED <<nextUuid, ops, issued, asked, held>>
    /\ UNCHANGED <<nextUrn, creates, clock, due, idx, parent, success, req,
                   calls, trace, begin, daemon>>

(* ------------------------ queries and pruning ------------------------- *)

\* the before / after argument of prune_scheduled_posts: None, a date as
\* the prune command passes it (YYYY-MM-DD, the day of every publish_at
\* here), or a timestamp of that day written with "T" or with a space
NoBound == [sep |-> "none", t |-> 0]
DateOnly == [sep |-> "date", t |-> 0]
PruneBounds ==
    {NoBound, DateOnly}
    \cup {[sep |-> s, t |-> t] : s \in Seps, t \in Times \ {0}}

\* publish_at >= bound on the strings: a date is a proper prefix of every
\* timestamp of its day, so the timestamp is the greater string
StrGEBound(sep, t, b) ==
    IF b.sep = "date" THEN TRUE ELSE StrLE(b.sep, b.t, sep, t)

\* publish_at <= bound on the strings
StrLEBound(sep, t, b) ==
    IF b.sep = "date" THEN FALSE ELSE StrLE(sep, t, b.sep, b.t)

\* should_prune of prune_scheduled_posts
ShouldPrune(it, status, before, after) ==
    /\ it.status = status
    /\ ~(before # NoBound /\ StrGEBound(it.sep, it.publish_at, before))
    /\ ~(after # NoBound /\ StrLEBound(it.sep, it.publish_at, after))

\* the documents the queries are put to: nothing, or a published post
\* scheduled at midnight followed by comments on it of every status, due
\* time and spelling of publish_at
RECURSIVE QueryDocs(_)
QueryDocs(n) ==
    IF n = 0
    THEN {<<>>, <<NewPost(<<>>, 1, "post", "linkedin", 0, "T", "published",
                          1, NoUuid)>>}
    ELSE LET shorter == QueryDocs(n - 1)
         IN shorter \cup
            {Append(d, NewPost(d, Len(d) + 1, "comment", "linkedin", t, s,
                               st, NoUrn, 1)) :
                d \in {e \in shorter : Len(e) = n},
                t \in {u \in Times : u >= MinDelay},
                s \in Seps, st \in Statuses}

\* prune_scheduled_posts(before, after, status) by the one process that
\* uses the store
prune_scheduled_posts ==
    /\ asked = NoQuery
    /\ \E status \in Statuses, before \in PruneBounds, after \in PruneBounds :
          LET keep == SelectSeq(doc, LAMBDA it :
                          ~ShouldPrune(it, status, before, after))
              pruned_count == Len(doc) - Len(keep)
          IN /\ doc' = IF pruned_count > 0 THEN keep ELSE doc
             /\ asked' = [name |-> "prune", status |-> status,
                          before |-> before, after |-> after,
                          doc |-> doc, ret |-> pruned_count,
                          wrote |-> pruned_count > 0]
    /\ UNCHANGED <<nextUuid, pc, data, torn, call, index, ops, issued>>
    /\ UNCHANGED engineVars

\* get_pending_comments() as the engine calls it: before_time is
\* datetime.now().isoformat()
get_pending_comments ==
    /\ asked = NoQuery
    /\ \E now \in Times :
          asked' = [name |-> "pending", now |-> now, doc |-> doc,
                    ret |-> PendingComments(doc, now)]
    /\ UNCHANGED <<doc, nextUuid, pc, data, torn, call, index, ops, issued>>
    /\ UNCHANGED engineVars

(* --------------------------- specifications --------------------------- *)

\* no engine is in a cycle and no client in a call; the ids handed out are
\* those of the records the document holds
Idle ==
    /\ creates = 0
    /\ clock = 0
    /\ pc = [p \in Procs |-> "idle"]
    /\ due = [p \in Procs |-> <<>>]
    /\ idx = [p \in Procs |-> 1]
    /\ parent = [p \in Procs |-> <<>>]
    /\ success = [p \in Procs |-> FALSE]
    /\ req = [p \in Procs |-> NoReq]
    /\ data = [p \in Procs |-> <<>>]
    /\ calls = [p \in Procs |-> <<>>]
    /\ trace = [p \in Procs |-> <<>>]
    /\ begin = [p \in Procs |-> NoBegin]
    /\ torn = FALSE
    /\ call = [p \in Procs |-> NoCall]
    /\ index = [p \in Procs |-> <<>>]
    /\ ops = 0
    /\ issued = Ids(doc)
    /\ asked = NoQuery
    /\ daemon = Constructed
    /\ held = [p \in Procs |-> "none"]

\* the empty document _init_scheduled_posts writes
Init ==
    /\ doc = <<>>
    /\ nextUuid = 1
    /\ nextUrn = 1
    /\ Idle

\* the document after an earlier cycle published a post and stored the
\* urn the platform returned for it
InitTwo ==
    /\ doc = <<NewPost(<<>>, 1, "post", "linkedin", 0, "T", "published", 1,
                       NoUuid)>>
    /\ nextUuid = 2
    /\ nextUrn = 2
    /\ Idle

Engine(p) ==
    \/ StartCycle(p)
    \/ PostFetch(p)
    \/ PostExec(p)
    \/ PostStatus(p)
    \/ PostNext(p)
    \/ CommentFetch(p)
    \/ CommentParent(p)
    \/ CommentExec(p)
    \/ CommentStatus(p)
    \/ CommentNext(p)
    \/ UpdateRead(p)
    \/ UpdateWrite(p)
    \/ Finish(p)

Next ==
    \/ create_scheduled_post(MaxCreates)
    \/ delete_scheduled_post
    \/ Engine(1)

Spec == Init /\ [][Next]_vars

NextTwo ==
    \/ create_scheduled_post(MaxCreatesTwo)
    \/ delete_scheduled_post
    \/ \E p \in Procs : Engine(p)

SpecTwo == InitTwo /\ [][NextTwo]_vars

\* one engine whose store calls may raise, and the user, on a document
\* that already holds a published post
NextRaise ==
    \/ create_scheduled_post(MaxCreatesTwo)
    \/ delete_scheduled_post
    \/ Engine(1)
    \/ Raise(1)

SpecRaise == InitTwo /\ [][NextRaise]_vars

\* one engine, and the user calling the store at any time, also while a
\* cycle is under way
NextUser ==
    \/ create_scheduled_post(MaxCreatesTwo)
    \/ delete_scheduled_post
    \/ create_in_cycle(MaxCreatesTwo)
    \/ delete_in_cycle
    \/ Engine(1)

SpecUser == InitTwo /\ [][NextUser]_vars

\* documents of one or two records: a post that is pending, published (with
\* the urn the platform gave it) or failed, or a comment whose parent was
\* deleted; and with it, or not, a pending comment on that record
LoopDocs ==
    LET first ==
            {NewPost(<<>>, 1, "post", "linkedin", t, "T", "pending", NoUrn,
                     NoUuid) : t \in {0, MinDelay}}
            \cup {NewPost(<<>>, 1, "post", "linkedin", 0, "T", "published",
                          1, NoUuid),
                  NewPost(<<>>, 1, "post", "linkedin", 0, "T", "failed",
                          NoUrn, NoUuid),
                  NewPost(<<>>, 1, "comment", "linkedin", MinDelay, "T",
                          "pending", NoUrn, UnknownUuid)}
    IN {<<a>> : a \in first}
       \cup {<<a, NewPost(<<a>>, 2, "comment", "linkedin",
                          a.publish_at + MinDelay, s, "pending", NoUrn,
                          a.uuid)>> : a \in first, s \in Seps}

InitLoop ==
    /\ doc \in LoopDocs
    /\ nextUuid = Len(doc) + 1
    /\ nextUrn = IF doc[1].urn = NoUrn THEN 1 ELSE 2
    /\ Idle

NextLoop == Engine(1)

\* one engine in a run loop that is never cancelled: the loop of run goes
\* on from what has returned, so the engine takes its next step whenever it
\* has one
SpecLoop == InitLoop /\ [][NextLoop]_vars /\ WF_vars(Engine(1))

\* the daemon in run, signals, and the user between two cycles
Run ==
    \/ RunEnter
    \/ LoopCheck
    \/ Cycle(1)
    \/ Sleep
    \/ Wake

NextRun ==
    \/ create_scheduled_post(MaxCreatesTwo)
    \/ delete_scheduled_post
    \/ Run
    \/ SignalHandler

\* the daemon is a running process and time.sleep ends: run takes its next
\* step whenever it has one; signals and the user come as they please
SpecRun == InitTwo /\ [][NextRun]_vars /\ WF_vars(Run)

\* the queue file is new, or was left by a version that wrote records
\* without uuid, type, urn, parent_uuid and blocked_reason
InitStore ==
    /\ doc \in {<<>>, <<LegacyPost>>}
    /\ nextUuid = 1
    /\ nextUrn = 1
    /\ Idle

Client(p) ==
    \/ StoreCall(p)
    \/ StoreLoad(p)
    \/ StoreOpen(p)
    \/ StoreDump(p)

NextStore == \E p \in Procs : Client(p)

\* two clients calling the store concurrently
SpecStore == InitStore /\ [][NextStore]_vars

NextOne == Client(1)

\* one client: no two store calls overlap
SpecOne == InitStore /\ [][NextOne]_vars

\* a client calling the store, every flock a step
LockClient(p) ==
    \/ LockCall(p)
    \/ FlockSh(p)
    \/ LockedLoad(p)
    \/ Unlock(p)
    \/ LockedOpen(p)
    \/ FlockEx(p)
    \/ LockedDump(p)

NextLock == \E p \in Procs : LockClient(p)

\* two clients calling the store concurrently, with their locks
SpecLock == InitStore /\ [][NextLock]_vars

\* a document one process built, before it is pruned or queried
InitQuery ==
    /\ doc \in QueryDocs(MaxQueryItems)
    /\ nextUuid = Len(doc) + 1
    /\ nextUrn = 2
    /\ Idle

NextQuery ==
    \/ prune_scheduled_posts
    \/ get_pending_comments

\* one prune or one query of a document
SpecQuery == InitQuery /\ [][NextQuery]_vars

(* ------------------------------ claims -------------------------------- *)

\* stored status of the item with this id
StatusOf(d, id) ==
    IF GetPost(d, id) = <<>> THEN "absent" ELSE GetPost(d, id)[1].status

Terminal == {"published", "failed"}

\* P is a post the current cycle of p published with a remote id and C a
\* comment on it that was pending and due when the cycle began
PublishedParent(p, e, C) ==
    /\ e.kind = "post" /\ e.ok /\ e.ret # NoUrn
    /\ C.type = "comment" /\ C.status = "pending"
    /\ C.publish_at <= begin[p].now
    /\ GetPost(begin[p].doc, e.id) # <<>>
    /\ C.parent_uuid = GetPost(begin[p].doc, e.id)[1].uuid

\* C1 as claimed: when a cycle has published a due pending post with a remote
\* id, publish-comment is called in the same cycle for every due pending
\* comment on that post.
C1_CommentCalledSameCycle ==
    pc[1] = "done" =>
        \A e \in Range(trace[1]), C \in Range(begin[1].doc) :
            PublishedParent(1, e, C) =>
                \E c \in Range(trace[1]) :
                    c.id = C.id /\ c.kind = "comment" /\ c.called

\* C1 amended: such a comment is executed in the comment phase of the same
\* cycle, never deferred, and ends the cycle published or failed;
\* publish-comment is called for it with the post's new remote id unless its
\* content file or its provider failed, and then it is failed without a call.
C1_CommentExecutedSameCycle ==
    pc[1] = "done" =>
        \A e \in Range(trace[1]), C \in Range(begin[1].doc) :
            PublishedParent(1, e, C) =>
                \E c \in Range(trace[1]) :
                    /\ c.id = C.id /\ c.kind = "comment"
                    /\ c.what = "executed"
                    /\ \/ c.called /\ c.target = e.ret
                       \/ ~c.called /\ ~c.ok /\ c.cause \in {"file", "provider"}
                    /\ StatusOf(doc, C.id) =
                          (IF c.ok THEN "published" ELSE "failed")

C1_Witness ==
    /\ pc[1] = "done"
    /\ \E e \in Range(trace[1]), C \in Range(begin[1].doc) :
          /\ PublishedParent(1, e, C)
          /\ \E c \in Range(trace[1]) :
                c.id = C.id /\ c.called /\ c.target = e.ret

\* C2: publish-comment is invoked for a comment only while its parent is
\* stored as published with a remote id, and with that remote id as target;
\* once the comment is dealt with it is stored as published with the id the
\* call returned when the call succeeded, and as failed when the call failed.
C2_CommentCall ==
    \A k \in 1..Len(calls[1]) :
        calls[1][k].op = "comment" =>
            LET C == due[1][idx[1]]
                par == GetPostByUuid(doc, C.parent_uuid)
            IN /\ calls[1][k].item = C.id
               /\ par # <<>>
               /\ par[1].status = "published"
               /\ par[1].urn # NoUrn
               /\ calls[1][k].arg = <<par[1].urn>>
               /\ pc[1] = "comment_next" =>
                    /\ GetPost(doc, C.id) # <<>>
                    /\ calls[1][k].ok =>
                         /\ GetPost(doc, C.id)[1].status = "published"
                         /\ calls[1][k].ret # NoUrn =>
                              GetPost(doc, C.id)[1].urn = calls[1][k].ret
                    /\ ~calls[1][k].ok =>
                         GetPost(doc, C.id)[1].status = "failed"

C2_Witness ==
    /\ pc[1] = "comment_next"
    /\ \E k \in 1..Len(calls[1]) :
          /\ calls[1][k].op = "comment" /\ calls[1][k].ok
          /\ calls[1][k].ret # NoUrn
          /\ GetPost(doc, due[1][idx[1]].id)[1].urn = calls[1][k].ret

\* Scenario C: when the cycle of p began, P was a pending post and C a
\* pending comment on it scheduled 10 minutes after it, both due
ScenarioC(p, P, C) ==
    /\ P.type = "post" /\ P.status = "pending"
    /\ C.type = "comment" /\ C.status = "pending"
    /\ C.parent_uuid = P.uuid
    /\ C.publish_at = P.publish_at + 10
    /\ C.publish_at <= begin[p].now

\* C3 as claimed: one full cycle over Scenario C leaves the comment pending.
C3_CommentStaysPending ==
    pc[1] = "done" =>
        \A P \in Range(begin[1].doc), C \in Range(begin[1].doc) :
            ScenarioC(1, P, C) => StatusOf(doc, C.id) = "pending"

\* C3 amended: one full cycle over Scenario C leaves neither item pending:
\* the post phase makes the parent published or failed and the comment phase
\* then executes or fails the comment.
C3_CommentNotPending ==
    pc[1] = "done" =>
        \A P \in Range(begin[1].doc), C \in Range(begin[1].doc) :
            ScenarioC(1, P, C) =>
                /\ StatusOf(doc, P.id) \in Terminal
                /\ StatusOf(doc, C.id) \in Terminal

C3_Witness ==
    /\ pc[1] = "done"
    /\ \E P \in Range(begin[1].doc), C \in Range(begin[1].doc) :
          ScenarioC(1, P, C)

\* the comment the comment phase is looking at has a stored pending parent
ParentIsPending(p) ==
    LET par == GetPostByUuid(doc, due[p][idx[p]].parent_uuid)
    IN par # <<>> /\ par[1].status = "pending"

\* C4: the step that processes a due pending comment whose parent is pending
\* makes no gateway call and no store update, leaves the document as it is
\* (so the comment stays pending) and goes on with the loop; a deferred
\* comment is still pending afterwards, and every comment phase fetches all
\* pending comments that are due, the deferred ones included.
C4_Deferred ==
    /\ [](\A e \in Range(trace[1]) :
            e.what = "deferred" => StatusOf(doc, e.id) = "pending")
    /\ [][(pc[1] = "comment_parent" /\ pc'[1] # "comment_parent"
             /\ ParentIsPending(1))
           => (/\ pc'[1] = "comment_next"
               /\ doc' = doc
               /\ calls' = calls /\ nextUrn' = nextUrn
               /\ req' = req
               /\ StatusOf(doc', due[1][idx[1]].id) = "pending"
               /\ trace'[1][Len(trace'[1])].what = "deferred")]_vars
    /\ [][(pc[1] = "comments" /\ pc'[1] # "comments")
           => (\A k \in 1..Len(doc) :
                 (doc[k].type = "comment" /\ doc[k].status = "pending"
                    /\ doc[k].publish_at <= clock')
                 => doc[k] \in Range(due'[1]))]_vars

C4_Witness ==
    /\ pc[1] = "comment_next"
    /\ ParentIsPending(1)
    /\ trace[1][Len(trace[1])].what = "deferred"
    /\ StatusOf(doc, due[1][idx[1]].id) = "pending"

\* C5: no step of an engine changes the status of an item that is stored
\* as published or failed, also with two engines on the same document.
C5_TerminalStays ==
    [][pc' # pc =>
         \A k \in 1..Len(doc) :
             doc[k].status \in Terminal =>
                 /\ k <= Len(doc')
                 /\ doc'[k].id = doc[k].id
                 /\ doc'[k].status = doc[k].status]_vars

\* C6: at the end of a cycle every due pending post for which
\* provider.post succeeded and returned remote id r is stored as published
\* with urn r.
C6_PublishedWithRemoteId ==
    pc[1] = "done" =>
        \A e \in Range(trace[1]) :
            (e.kind = "post" /\ e.called /\ e.ok /\ e.ret # NoUrn) =>
                /\ GetPost(doc, e.id) # <<>>
                /\ GetPost(doc, e.id)[1].status = "published"
                /\ GetPost(doc, e.id)[1].urn = e.ret

C6_Witness ==
    /\ pc[1] = "done"
    /\ \E e \in Range(trace[1]) :
          /\ e.kind = "post" /\ e.called /\ e.ok /\ e.ret # NoUrn
          /\ GetPost(begin[1].doc, e.id)[1].status = "pending"
          /\ GetPost(begin[1].doc, e.id)[1].publish_at <= begin[1].now
          /\ GetPost(doc, e.id)[1].urn = e.ret

\* C7: when the post phase is over every post that was pending and due when
\* it began has been executed, in the order fetched, and is stored with its
\* own outcome: published when its execution succeeded, failed when the
\* content file, the provider, an upload or the publish call failed.
C7_PostIsolation ==
    pc[1] = "comments" =>
        /\ \A k \in 1..Len(begin[1].doc) :
               (IsPendingPost(begin[1].doc[k])
                  /\ begin[1].doc[k].publish_at <= begin[1].now) =>
                   \E j \in 1..Len(due[1]) : due[1][j] = begin[1].doc[k]
        /\ Len(trace[1]) = Len(due[1])
        /\ \A k \in 1..Len(due[1]) :
               /\ trace[1][k].id = due[1][k].id
               /\ trace[1][k].kind = "post"
               /\ trace[1][k].what = "executed"
               /\ trace[1][k].ok <=> trace[1][k].cause = "none"
               /\ StatusOf(doc, due[1][k].id) =
                     (IF trace[1][k].ok THEN "published" ELSE "failed")

C7_Witness ==
    /\ pc[1] = "comments"
    /\ Len(due[1]) = 2
    /\ trace[1][1].cause \in {"file", "media", "call"}
    /\ StatusOf(doc, due[1][1].id) = "failed"
    /\ trace[1][2].ok
    /\ StatusOf(doc, due[1][2].id) = "published"

Uploads(cs) == SelectSeq(cs, LAMBDA c : c.op = "upload")

\* the content file was parsed and not every declared media file was
\* uploaded
Incomplete(cs) ==
    /\ cs # <<>>
    /\ cs[1].op = "parse" /\ cs[1].ok
    /\ \/ Len(Uploads(cs)) < Len(cs[1].arg)
       \/ \E k \in 1..Len(cs) : cs[k].op = "upload" /\ ~cs[k].ok

\* C8: provider.post is called only after every declared media file was
\* uploaded successfully, one upload per file in declared order, and with
\* exactly their media ids in that order; when a file is missing or an
\* upload fails, provider.post is not called and the item is stored failed.
C8_MediaAllOrNothing ==
    /\ \A k \in 1..Len(calls[1]) :
           calls[1][k].op = "post" =>
               LET declared == calls[1][1].arg
               IN /\ calls[1][1].op = "parse"
                  /\ k = Len(declared) + 2
                  /\ \A j \in 1..Len(declared) :
                         /\ calls[1][j + 1].op = "upload"
                         /\ calls[1][j + 1].ok
                         /\ calls[1][j + 1].arg = <<declared[j]>>
                  /\ calls[1][k].arg =
                         [j \in 1..Len(declared) |-> MediaUrn(declared[j])]
    /\ Incomplete(calls[1]) =>
           /\ ~Called(calls[1], "post")
           /\ pc[1] = "post_next" =>
                  StatusOf(doc, calls[1][1].item) = "failed"

C8_Witness ==
    /\ pc[1] = "post_next"
    /\ Len(calls[1]) = 4
    /\ calls[1][4].op = "post"
    /\ calls[1][4].arg = <<MediaUrn(calls[1][1].arg[1]),
                           MediaUrn(calls[1][1].arg[2])>>
    /\ calls[1][1].arg[1] # calls[1][1].arg[2]

\* C9: once the comment phase has dealt with a due pending comment whose
\* parent is stored as failed, the comment is stored as failed with a
\* blocked_reason that names the parent's failure, and no call was made.
C9_ParentFailed ==
    pc[1] = "comment_next" =>
        LET C == due[1][idx[1]]
            par == GetPostByUuid(doc, C.parent_uuid)
        IN (par # <<>> /\ par[1].status = "failed") =>
               /\ StatusOf(doc, C.id) = "failed"
               /\ GetPost(doc, C.id)[1].blocked_reason # NoReason
               /\ GetPost(doc, C.id)[1].blocked_reason =
                     [msg |-> "Parent post <id> failed to publish",
                      ref |-> par[1].id]
               /\ calls[1] = <<>>
               /\ ~trace[1][Len(trace[1])].called

C9_Witness ==
    /\ pc[1] = "comment_next"
    /\ LET par == GetPostByUuid(doc, due[1][idx[1]].parent_uuid)
       IN par # <<>> /\ par[1].status = "failed"
    /\ StatusOf(doc, due[1][idx[1]].id) = "failed"
    /\ StatusOf(begin[1].doc, due[1][idx[1]].id) = "pending"

\* C10: once the comment phase has dealt with a due pending comment whose
\* parent_uuid resolves to no stored item, the comment is stored as failed
\* with a blocked_reason that names the missing parent, and no call was
\* made.
C10_ParentMissing ==
    pc[1] = "comment_next" =>
        LET C == due[1][idx[1]]
        IN (C.parent_uuid # NoUuid
              /\ GetPostByUuid(doc, C.parent_uuid) = <<>>) =>
               /\ StatusOf(doc, C.id) = "failed"
               /\ GetPost(doc, C.id)[1].blocked_reason =
                     [msg |-> "Parent post <uuid> not found",
                      ref |-> C.parent_uuid]
               /\ calls[1] = <<>>
               /\ ~trace[1][Len(trace[1])].called

C10_Witness ==
    /\ pc[1] = "comment_next"
    /\ due[1][idx[1]].parent_uuid # NoUuid
    /\ GetPostByUuid(doc, due[1][idx[1]].parent_uuid) = <<>>
    /\ StatusOf(doc, due[1][idx[1]].id) = "failed"
    /\ StatusOf(begin[1].doc, due[1][idx[1]].id) = "pending"

\* C11: once the comment phase has dealt with a due pending comment whose
\* parent is stored as published without urn, the comment is stored as
\* failed with a blocked_reason saying that the parent has no URN, and
\* provider.comment was not called.
C11_ParentWithoutUrn ==
    pc[1] = "comment_next" =>
        LET C == due[1][idx[1]]
            par == GetPostByUuid(doc, C.parent_uuid)
        IN (par # <<>> /\ par[1].status = "published"
              /\ par[1].urn = NoUrn) =>
               /\ StatusOf(doc, C.id) = "failed"
               /\ GetPost(doc, C.id)[1].blocked_reason # NoReason
               /\ GetPost(doc, C.id)[1].blocked_reason =
                     [msg |-> "Parent post <id> has no URN available",
                      ref |-> par[1].id]
               /\ ~Called(calls[1], "comment")
               /\ ~trace[1][Len(trace[1])].called

C11_Witness ==
    /\ pc[1] = "comment_next"
    /\ LET par == GetPostByUuid(doc, due[1][idx[1]].parent_uuid)
       IN par # <<>> /\ par[1].status = "published" /\ par[1].urn = NoUrn
    /\ StatusOf(doc, due[1][idx[1]].id) = "failed"
    /\ StatusOf(begin[1].doc, due[1][idx[1]].id) = "pending"
    /\ trace[1][Len(trace[1])].cause = "urn"

\* C12: at the end of a cycle every post that was pending and due when the
\* cycle began has been executed and every comment the comment phase
\* fetched has been dealt with; a due post whose provider is not supported,
\* or whose provider is not configured, was not published: no gateway call
\* was made for it and it is stored as failed.
C12_ProviderFailure ==
    pc[1] = "done" =>
        /\ \A P \in Range(DuePosts(begin[1].doc, begin[1].now)) :
               \E e \in Range(trace[1]) :
                   /\ e.id = P.id /\ e.kind = "post" /\ e.what = "executed"
                   /\ P.provider # "linkedin" =>
                         /\ ~e.ok /\ ~e.called
                         /\ StatusOf(doc, P.id) = "failed"
        /\ \A e \in Range(trace[1]) :
               (e.kind = "post" /\ e.cause = "provider") =>
                   /\ ~e.ok /\ ~e.called
                   /\ StatusOf(doc, e.id) = "failed"
        /\ \A C \in Range(due[1]) :
               \E e \in Range(trace[1]) : e.id = C.id /\ e.kind = "comment"

C12_Witness ==
    /\ pc[1] = "done"
    /\ Len(trace[1]) = 2
    /\ trace[1][1].kind = "post" /\ trace[1][1].cause = "provider"
    /\ StatusOf(doc, trace[1][1].id) = "failed"
    /\ GetPost(begin[1].doc, trace[1][1].id)[1].provider # "linkedin"
    /\ trace[1][2].what = "executed"

\* C13: every gateway call (upload, publish, publish-comment) an engine
\* makes is for the item its loop is at, and that item was fetched as
\* pending with a publish_at at or before the time the phase evaluated;
\* while a cycle runs, an item that was pending with a later publish_at when
\* the cycle began is stored exactly as it was.
C13_OnlyDue ==
    /\ \A k \in 1..Len(calls[1]) :
           calls[1][k].op \in {"upload", "post", "comment"} =>
               /\ calls[1][k].item = due[1][idx[1]].id
               /\ due[1][idx[1]].status = "pending"
               /\ due[1][idx[1]].publish_at <= clock
    /\ \A it \in Range(begin[1].doc) :
           (it.status = "pending" /\ it.publish_at > clock) =>
               it \in Range(doc)

\* C14: in the order a cycle deals with items, a post comes before every
\* comment, and of two posts, or of two comments, the one with the earlier
\* publish_at comes first.
C14_PublishAtOrder ==
    \A i, j \in 1..Len(trace[1]) :
        LET a == trace[1][i]
            b == trace[1][j]
        IN /\ (a.kind = "post" /\ b.kind = "comment") => i < j
           /\ (/\ a.kind = b.kind
               /\ GetPost(begin[1].doc, a.id)[1].publish_at
                     < GetPost(begin[1].doc, b.id)[1].publish_at) => i < j

\* the step in which client p ends the json.dump of the change its call
\* makes (not the write-back of a migration)
Writes(p) == pc[p] = "s_dump" /\ ~call[p].mig /\ pc'[p] = "idle"

\* the record is one the call is to change or remove
Aims(rq, it) ==
    \/ rq.name \in {"update", "delete"} /\ it.id = rq.id
    \/ rq.name = "prune" /\ it.status = "published"

\* C15: a mutating store operation is an atomic read-modify-write: what its
\* write stores is the document as it stands with the one change of the
\* call, so every record the call is not about, whoever wrote it, is still
\* there afterwards, and the file holds a whole document
C15_NoLostUpdate ==
    [][\A p \in Procs :
          Writes(p) =>
            /\ ~torn'
            /\ \A it \in Range(doc) :
                  ~Aims(call[p].rq, it) => it \in Range(doc')]_vars

\* C16: a read never finds the file empty, truncated or partly written: no
\* store call ends with the error json.load raises on such a file
C16_ReadComplete ==
    \A p \in Procs : call[p].res # "JSONDecodeError"

\* C17: get_post_by_uuid answers from the file as it is when the call reads
\* it, whatever index the client held before: it returns the last record
\* carrying the uuid in the document it loaded, and None when that document
\* has no such record
C17_ReadThrough ==
    \A p \in Procs :
        (call[p].rq.name = "get" /\ call[p].res \in {"found", "none"}) =>
            LET d == call[p].seen
                hits == {i \in 1..Len(d) : d[i].uuid = call[p].rq.u}
            IN IF hits = {}
               THEN call[p].res = "none" /\ call[p].item = <<>>
               ELSE /\ call[p].res = "found"
                    /\ call[p].item = <<d[MaxOf(hits)]>>

\* a client finds by uuid the record the other client created
C17_Witness ==
    \E p, q \in Procs :
        /\ p # q
        /\ call[p].rq.name = "get" /\ call[p].res = "found"
        /\ call[q].rq.name = "create" /\ call[q].res = "ok"
        /\ call[p].item = call[q].item

\* C18: a comment added through create_scheduled_post has, in the document
\* it is written into, a parent with the uuid it names, scheduled at least
\* MinDelay minutes before it
C18_CommentAfterParent ==
    [][\A p \in Procs :
          (Writes(p) /\ call[p].rq.name = "create"
                     /\ call[p].rq.type = "comment") =>
            LET par == GetPostByUuid(doc', call[p].rq.parent_uuid)
            IN /\ par # <<>>
               /\ call[p].rq.publish_at >= par[1].publish_at + MinDelay]_vars

\* the step in which the create call of client p is rejected by validation
Rejected(p) ==
    /\ call'[p].rq.name = "create"
    /\ call'[p].res = "ValueError"
    /\ call[p] # call'[p]

\* b is a with nothing but missing keys filled in
Backfilled(a, b) ==
    /\ b.id = a.id /\ b.provider = a.provider /\ b.status = a.status
    /\ b.publish_at = a.publish_at /\ b.sep = a.sep
    /\ a.uuid # Absent => b.uuid = a.uuid
    /\ a.type # AbsentType => b.type = a.type
    /\ a.urn # Absent => b.urn = a.urn
    /\ a.parent_uuid # Absent => b.parent_uuid = a.parent_uuid
    /\ a.blocked_reason # AbsentReason => b.blocked_reason = a.blocked_reason

\* a create request that names no kind the store knows, a comment without
\* parent or a post with one
BadRequest(rq) ==
    /\ rq.name = "create"
    /\ \/ rq.type \notin Types
       \/ rq.type = "comment" /\ rq.parent_uuid = NoUuid
       \/ rq.type = "post" /\ rq.parent_uuid # NoUuid

\* C19 as stated: the step that rejects a create request leaves the persisted
\* document as it was
C19_RejectedUnchanged ==
    [][\A p \in Procs : Rejected(p) => doc' = doc]_vars

\* C19 as amended: a create request with a bad kind or a bad kind/parent
\* pair is rejected at once and writes nothing; a rejected create returns no
\* record and adds none, and the only write it can make is the write-back of
\* the lazy migration of the document its parent lookup read: the same
\* records in the same order, each with nothing but its missing keys
\* filled in
C19_RejectedAddsNothing ==
    [][\A p \in Procs :
          /\ (call'[p] # call[p] /\ BadRequest(call'[p].rq)) =>
                /\ call'[p].res = "ValueError"
                /\ call'[p].wrote = 0
                /\ doc' = doc
          /\ Rejected(p) =>
                /\ call'[p].item = <<>>
                /\ \/ doc' = doc
                   \/ /\ call[p].mig
                      /\ Len(doc') = Len(call[p].seen)
                      /\ \A k \in 1..Len(doc') :
                            Backfilled(call[p].seen[k], doc'[k])]_vars

\* a create naming a parent that never existed was rejected after its parent
\* lookup had written the migrated document back
C19_Witness ==
    \E p \in Procs :
        /\ call[p].rq.name = "create"
        /\ call[p].rq.parent_uuid = UnknownUuid
        /\ call[p].res = "ValueError"
        /\ call[p].wrote = 1
        /\ call[p].seen = <<LegacyPost>>
        /\ ~torn /\ doc # call[p].seen

\* the record is a post without parent or a comment with one; a record
\* written before the keys existed has neither key and reads as a post
KindOK(it) ==
    \/ it.type \in {"post", AbsentType} /\ it.parent_uuid \in {NoUuid, Absent}
    \/ it.type = "comment" /\ it.parent_uuid \notin {NoUuid, Absent}

C21_IdNeverReused ==
    [][\A p \in Procs :
          (Writes(p) /\ call[p].rq.name = "create") =>
             call[p].item[1].id \notin issued]_vars

\* C22: with one process driving the store, the stored ids are pairwise
\* distinct, and the id create_scheduled_post returns is the greatest stored
\* id plus one (1 for an empty document), greater than every stored id
C22_IdIsMaxPlusOne ==
    /\ [](\A i, j \in 1..Len(doc) : i # j => doc[i].id # doc[j].id)
    /\ [][\A p \in Procs :
            (Writes(p) /\ call[p].rq.name = "create") =>
               LET id == call[p].item[1].id
               IN /\ id = IF doc = <<>> THEN 1 ELSE MaxOf(Ids(doc)) + 1
                  /\ \A it \in Range(doc) : id > it.id
                  /\ call[p].item[1] \in Range(doc')]_vars

\* a create on a document left with the record of id 2 alone returned 3
C22_Witness ==
    /\ Len(doc) = 2
    /\ doc[1].id = 2 /\ doc[2].id = 3
    /\ call[1].rq.name = "create" /\ call[1].res = "ok"
    /\ call[1].item = <<doc[2]>>

\* C23: no two stored records carry the same uuid, so the index has one
\* entry for each record and get_post_by_uuid(u) finds the one record whose
\* uuid is u
C23_UuidBijection ==
    \A i, j \in 1..Len(doc) :
        (i # j /\ doc[i].uuid # Absent) => doc[i].uuid # doc[j].uuid

\* C24: get_scheduled_post with the id a create just returned finds, in the
\* document the create wrote, a record with the id and uuid returned and
\* with the type, provider, publish_at, status, parent_uuid, urn and
\* blocked_reason the create was called with (the uuid_str too when one was
\* passed)
C24_CreateThenGet ==
    [][\A p \in Procs :
          (Writes(p) /\ call[p].rq.name = "create") =>
             LET rq == call[p].rq
                 ret == call'[p].item[1]
                 got == GetPost(doc', ret.id)
             IN /\ call'[p].res = "ok"
                /\ got # <<>>
                /\ got[1].id = ret.id /\ got[1].uuid = ret.uuid
                /\ rq.u # NoUuid => got[1].uuid = rq.u
                /\ got[1].type = rq.type
                /\ got[1].provider = "linkedin"
                /\ got[1].publish_at = rq.publish_at /\ got[1].sep = "T"
                /\ got[1].status = "pending"
                /\ got[1].parent_uuid = rq.parent_uuid
                /\ got[1].urn = NoUrn
                /\ got[1].blocked_reason = NoReason]_vars

\* a comment was created next to its parent and is what get_scheduled_post
\* finds under its id
C24_Witness ==
    /\ call[1].rq.name = "create" /\ call[1].rq.type = "comment"
    /\ call[1].res = "ok"
    /\ Len(doc) = 2
    /\ GetPost(doc, call[1].item[1].id) = call[1].item

\* the step in which client p runs _read_scheduled_posts up to the write-back
Loads(p) == pc[p] = "s_load" /\ (pc'[p] # pc[p] \/ call'[p] # call[p])

\* the step in which client p ends the write-back of a migration
WritesBack(p) == pc[p] = "s_dump" /\ call[p].mig /\ call'[p] # call[p]

\* every record has uuid, type, urn, parent_uuid and blocked_reason
Complete(d) ==
    \A it \in Range(d) :
        /\ it.uuid # Absent /\ it.type # AbsentType /\ it.urn # Absent
        /\ it.parent_uuid # Absent /\ it.blocked_reason # AbsentReason

\* C25: a read of a document whose records all have uuid, type, urn,
\* parent_uuid and blocked_reason returns the records as they are stored,
\* takes no uuid for them and writes nothing back; the document a migrating
\* read wrote back is such a document, so the next read changes nothing
C25_MigrationIdempotent ==
    [][\A p \in Procs :
          /\ (Loads(p) /\ ~torn /\ Complete(doc)) =>
                /\ ~call'[p].mig
                /\ index'[p] = doc
                /\ doc' = doc
                /\ call'[p].wrote = call[p].wrote
                /\ nextUuid' = nextUuid
                      + (IF pc'[p] = "s_open" /\ call[p].rq.name = "create"
                            /\ call[p].rq.u = NoUuid THEN 1 ELSE 0)
          /\ WritesBack(p) => Complete(doc')]_vars

\* a call read the migrated legacy record, found it under the uuid the
\* migration gave it and wrote nothing
C25_Witness ==
    /\ call[1].rq.name = "get" /\ call[1].res = "found"
    /\ call[1].wrote = 0
    /\ call[1].seen = <<EnsurePostFields(LegacyPost, 1)>>
    /\ doc = call[1].seen

\* b has the default of every key a lacks: type post, no urn, no parent, no
\* blocked_reason, and one of the uuids in lo..hi
Defaulted(a, b, lo, hi) ==
    /\ a.uuid = Absent => b.uuid \in lo..hi
    /\ a.type = AbsentType => b.type = "post"
    /\ a.urn = Absent => b.urn = NoUrn
    /\ a.parent_uuid = Absent => b.parent_uuid = NoUuid
    /\ a.blocked_reason = AbsentReason => b.blocked_reason = NoReason

\* C26: a read that loads a record lacking uuid, type, urn, parent_uuid or
\* blocked_reason gives each missing key its default (a uuid not handed out
\* before, different for every record), leaves every key that was there as
\* it was, and writes the filled-in document to the file before the call
\* that read goes on or returns
C26_MigrationFrame ==
    [][\A p \in Procs :
          /\ (Loads(p) /\ ~torn /\ ~Complete(doc)) =>
                /\ call'[p].mig /\ pc'[p] = "s_open" /\ call'[p].res = ""
                /\ Complete(data'[p])
                /\ Len(data'[p]) = Len(doc)
                /\ \A k \in 1..Len(doc) :
                      /\ Backfilled(doc[k], data'[p][k])
                      /\ Defaulted(doc[k], data'[p][k],
                                   nextUuid, nextUuid' - 1)
                /\ \A k, l \in 1..Len(doc) :
                      (k # l /\ doc[k].uuid = Absent) =>
                          data'[p][k].uuid # data'[p][l].uuid
                /\ doc' = doc
          /\ WritesBack(p) =>
                /\ call[p].res = ""
                /\ doc' = data[p]
                /\ ~torn']_vars

\* the legacy record was read, filled in and written back, and the call that
\* read it has returned it
C26_Witness ==
    /\ call[1].seen = <<LegacyPost>>
    /\ call[1].wrote = 1
    /\ call[1].res = "False"
    /\ doc = <<EnsurePostFields(LegacyPost, 1)>>

\* the time a bound stands for: a date is its midnight
TimeOf(b) == b.t

\* the record is one prune is to remove: its status is the one given, it is
\* scheduled before `before` and after `after` where these are given
Matches(it, status, before, after) ==
    /\ it.status = status
    /\ before = NoBound \/ it.publish_at < TimeOf(before)
    /\ after = NoBound \/ it.publish_at > TimeOf(after)

\* C27: prune removes exactly the records with the given status scheduled
\* strictly before `before` and strictly after `after`, returns their number,
\* leaves the other records as they were and in their order, and writes
\* nothing when there is none
C27_PruneExact ==
    asked.name = "prune" =>
        LET keep == SelectSeq(asked.doc, LAMBDA it :
                        ~Matches(it, asked.status, asked.before, asked.after))
        IN /\ doc = keep
           /\ asked.ret = Len(asked.doc) - Len(keep)
           /\ asked.wrote = (asked.ret > 0)

\* C29: get_pending_comments returns exactly the stored pending comments
\* scheduled at or before the time asked for, each once, the earlier
\* publish_at first and, of two with the same publish_at, the lower id first
C29_PendingDueSorted ==
    asked.name = "pending" =>
        LET want == {it \in Range(asked.doc) :
                        /\ it.type = "comment" /\ it.status = "pending"
                        /\ it.publish_at <= asked.now}
            ret == asked.ret
        IN /\ Range(ret) = want
           /\ Len(ret) = Cardinality(want)
           /\ \A i, j \in 1..Len(ret) :
                 i < j =>
                    \/ ret[i].publish_at < ret[j].publish_at
                    \/ /\ ret[i].publish_at = ret[j].publish_at
                       /\ ret[i].id < ret[j].id

\* the step in which the update or delete call of client p returns False
NotFound(p) ==
    /\ call[p].rq.name \in {"update", "delete"}
    /\ call[p].res = "" /\ call'[p].res = "False"

\* the write of update_scheduled_post(id, status='published'): the record
\* with the id has the field merged, every other record and the order are
\* as they were, and the call returns True
UpdateFrame(p) ==
    (Writes(p) /\ call[p].rq.name = "update") =>
        /\ call'[p].res = "ok"
        /\ Len(doc') = Len(doc)
        /\ \A k \in 1..Len(doc) :
              doc'[k] = IF doc[k].id = call[p].rq.id
                        THEN Merge(doc[k], StatusOnly("published"))
                        ELSE doc[k]
        /\ \E k \in 1..Len(doc) : doc[k].id = call[p].rq.id

\* C28 as stated: an update changes the record with the id only and returns
\* True; an update or delete of an id that is not stored returns False and
\* has written nothing
C28_UpdateFrame ==
    [][\A p \in Procs :
          /\ UpdateFrame(p)
          /\ NotFound(p) =>
                /\ doc' = doc
                /\ call'[p].wrote = 0]_vars

\* C28 as amended: an update changes the record with the id only and returns
\* True; an update or delete of an id that is not stored returns False
\* without raising, the document has no record with the id and none was
\* added, removed or moved, and the only write the call can have made is
\* the write-back of the lazy migration of the document it read
C28_NotFoundAddsNothing ==
    [][\A p \in Procs :
          /\ UpdateFrame(p)
          /\ NotFound(p) =>
                /\ call[p].rq.id \notin Ids(doc')
                /\ call'[p].wrote <= 1
                /\ \/ doc' = doc /\ ~call[p].mig
                   \/ /\ call[p].mig
                      /\ Len(doc') = Len(call[p].seen)
                      /\ \A k \in 1..Len(doc') :
                            Backfilled(call[p].seen[k], doc'[k])]_vars

\* a delete of an id that is not stored returned False after its read had
\* written the migrated legacy record back
C28_Witness ==
    /\ call[1].rq.name = "delete" /\ call[1].rq.id = 2
    /\ call[1].res = "False"
    /\ call[1].wrote = 1
    /\ call[1].seen = <<LegacyPost>>
    /\ doc # call[1].seen

(* ------------------------------- C30 ---------------------------------- *)

\* the positions of an engine inside _process_pending_posts or between two
\* cycles
CyclePositions ==
    {"idle", "posts", "post_exec", "post_status", "post_next", "upd_read",
     "upd_write", "comments", "comment_parent", "comment_exec",
     "comment_status", "comment_next", "done"}

\* the step is the store raising in a call of engine 1
Raised == pc[1] \in StoreCalls /\ trace'[1] # trace[1] /\ trace'[1] # <<>>
             /\ trace'[1][Len(trace'[1])].what = "raised"

\* C30: no failure inside a cycle escapes the engine.  Whatever the store
\* raises in a call of the cycle, and whatever the gateway or the content
\* source answers, the engine stays inside the cycle: the exception is
\* caught by the execution, which then counts as failed, or by the phase,
\* after which the comment phase or the end of the cycle follows, and the
\* engine never is where the exception has left _process_pending_posts, so
\* that run_once returns and run goes on to sleep and to the next cycle.
C30_NoFailureEscapes ==
    /\ [](pc[1] \in CyclePositions)
    /\ [][Raised =>
            /\ pc'[1] \in {"post_status", "comment_status", "comments", "done"}
            /\ pc'[1] \in {"post_status", "comment_status"} => ~success'[1]
            /\ doc' = doc]_vars

\* a cycle whose post phase was left by an exception of the store has gone
\* through the comment phase and is about to return
C30_Witness ==
    /\ pc[1] = "done"
    /\ \E k \in 1..Len(trace[1]) :
          /\ trace[1][k].what = "raised"
          /\ trace[1][k].kind = "post"
          /\ trace[1][k].cause = "_process_posts"

(* ------------------------------- C31 ---------------------------------- *)

\* the store has raised in the post phase of the cycle the trace is of
PostPhaseRaised(tr) ==
    \E k \in 1..Len(tr) : tr[k].what = "raised" /\ tr[k].kind = "post"

\* C31: a store error raised in the post phase ends the cycle early.  Once
\* a store call of the post phase has raised, the cycle takes up no further
\* item: no remaining due post is executed and no due comment is executed,
\* deferred or failed before the cycle ends.
C31_StoreErrorEndsCycle ==
    [][PostPhaseRaised(trace[1]) /\ Len(trace'[1]) > Len(trace[1])
          => trace'[1][Len(trace'[1])].what = "raised"]_vars

(* ------------------------------- C32 ---------------------------------- *)

\* run() is inside its loop
Looping == daemon.at \in {"check", "cycle", "sleep"}

\* the step is the signal handler running while run() is looping
HandlerRuns == Looping /\ daemon'.at = daemon.at /\ daemon' # daemon

\* every item the cycle has executed has its outcome in the document
OutcomesStored ==
    \A k \in 1..Len(trace[1]) :
       trace[1][k].what = "executed" =>
          /\ GetPost(doc, trace[1][k].id) # <<>>
          /\ GetPost(doc, trace[1][k].id)[1].status =
                NewStatus(trace[1][k].ok)
          /\ trace[1][k].ret # NoUrn =>
                GetPost(doc, trace[1][k].id)[1].urn = trace[1][k].ret

\* C32: cancellation is cooperative and takes effect between cycles only.
\* The signal handler running while run() loops makes the flag false and
\* touches nothing else; the item and the cycle in progress are carried to
\* the end, with the outcome of every executed item stored; run() leaves a
\* cycle only when it is complete; a cycle starts only when the flag was
\* true at the loop condition; run() returns only from the loop condition
\* with the flag false, and once the flag is false in the loop, it returns.
C32_CooperativeCancel ==
    /\ [][HandlerRuns =>
            /\ ~daemon'.running
            /\ UNCHANGED <<doc, pc, due, idx, req, data, calls, trace>>]_vars
    /\ [](daemon.at = "cycle" /\ pc[1] = "done" => OutcomesStored)
    /\ [][daemon.at = "cycle" /\ daemon'.at # "cycle"
            => pc[1] = "idle" /\ daemon'.at = "sleep"]_vars
    /\ [][pc[1] = "idle" /\ pc'[1] # "idle" => daemon.running]_vars
    /\ [][daemon.at # "returned" /\ daemon'.at = "returned"
            => daemon.at = "check" /\ ~daemon.running /\ pc[1] = "idle"]_vars
    /\ ((Looping /\ ~daemon.running) ~> (daemon.at = "returned"))

\* the signal came during a cycle (the flag was true at the loop condition
\* and is false now) and the cycle has gone on to its end, an item executed
\* and published
C32_Witness ==
    /\ daemon.at = "cycle"
    /\ ~daemon.running
    /\ pc[1] = "done"
    /\ \E k \in 1..Len(trace[1]) :
          trace[1][k].what = "executed" /\ trace[1][k].ok

(* ------------------------------- C33 ---------------------------------- *)

\* the step is engine 1 writing status failed on record i
MarksFailed(i) ==
    /\ pc[1] = "upd_write"
    /\ pc'[1] # "upd_write"
    /\ i <= Len(doc')
    /\ doc[i].id = doc'[i].id
    /\ doc[i].status # "failed"
    /\ doc'[i].status = "failed"

\* C33: every item the engine marks failed, post or comment and whatever
\* the cause, has a blocked_reason stored on it that is not None.
C33_FailedHasReason ==
    [][\A i \in 1..Len(doc) :
          MarksFailed(i) => doc'[i].blocked_reason # NoReason]_vars

(* ------------------------------- C34 ---------------------------------- *)

\* the fields of a record the engine has no business with
SameIdentity(a, b) ==
    /\ a.id = b.id
    /\ a.uuid = b.uuid
    /\ a.type = b.type
    /\ a.provider = b.provider
    /\ a.publish_at = b.publish_at
    /\ a.sep = b.sep
    /\ a.parent_uuid = b.parent_uuid

\* the step is a step of engine 1
EngineStep == pc'[1] # pc[1]

\* C34: an engine cycle adds no item and removes none, and changes no field
\* of an item other than status, urn, blocked_reason and updated_at: over
\* every step of the engine the document keeps its records, in their order,
\* each with its id, uuid, type, provider, publish_at and parent_uuid.
C34_EngineFrame ==
    [][EngineStep =>
          /\ Len(doc') = Len(doc)
          /\ \A i \in 1..Len(doc) : SameIdentity(doc[i], doc'[i])]_vars

(* ------------------------------- C35 ---------------------------------- *)

\* p is inside flock and cannot return from it
Waiting(p) ==
    \/ pc[p] = "l_flock_sh" /\ ~CanLock(p, "sh")
    \/ pc[p] = "l_flock_ex" /\ ~CanLock(p, "ex")

\* C35: the scope of a lock is one file access.  A process holds a lock
\* only between a flock and the unlock that follows the json.load or
\* json.dump it protects: never outside a store call (where the engine
\* calls the gateway and sleeps), never while it asks for a lock (the
\* shared lock of the read is gone before the write-back asks for the
\* exclusive one), never after the call has returned or raised.  The locks
\* held exclude each other as flock says, and a process waiting for a lock
\* waits for a holder that is not waiting itself: no deadlock.
C35_LockScope ==
    /\ \A p \in Procs :
          /\ held[p] = "sh" => pc[p] \in {"l_load", "l_unlock"}
          /\ held[p] = "ex" => pc[p] \in {"l_dump", "l_unlock"}
          /\ pc[p] \in {"idle", "l_flock_sh", "l_open", "l_flock_ex"}
                => held[p] = "none"
    /\ \A p, q \in Procs :
          p # q /\ held[p] = "ex" => held[q] = "none"
    /\ \A p \in Procs :
          Waiting(p) =>
             \E q \in Procs \ {p} : held[q] # "none" /\ ~Waiting(q)

\* a read has raised under the shared lock while the other client waits for
\* the exclusive lock, and the lock has been given back
C35_Witness ==
    \E p, q \in Procs :
       /\ p # q
       /\ pc[p] = "idle"
       /\ call[p].res = "JSONDecodeError"
       /\ held[p] = "none"
       /\ pc[q] = "l_flock_ex"

(* ------------------------------- C36 ---------------------------------- *)

\* C36: with two engines running cycles concurrently on the same queue
\* file, provider.post (or provider.comment) is invoked at most once for an
\* item, counting both engines: no two entries of the cycles under way are
\* invocations for the same item.
C36_PublishedOnce ==
    \A p, q \in Procs :
       \A i \in 1..Len(trace[p]), j \in 1..Len(trace[q]) :
          (/\ trace[p][i].called
           /\ trace[q][j].called
           /\ trace[p][i].id = trace[q][j].id) => (p = q /\ i = j)

(* ------------------------------- C37 ---------------------------------- *)

\* the item and, as long as there is one, each parent up the chain have a
\* publish_at that has come
RECURSIVE ChainDue(_, _)
ChainDue(it, n) ==
    /\ it.publish_at <= clock
    /\ (n > 0 /\ it.type = "comment"
           /\ GetPostByUuid(doc, it.parent_uuid) # <<>>)
          => ChainDue(GetPostByUuid(doc, it.parent_uuid)[1], n - 1)

\* the parent of comment c was published or failed before the comment phase
\* of the cycle of engine 1 began: a post that is so now (the comment phase
\* changes no post), or a comment that was so when the cycle began
ParentWasTerminal(c) ==
    LET par == GetPostByUuid(doc, c.parent_uuid)
    IN /\ par # <<>>
       /\ par[1].status \in Terminal
       /\ par[1].type = "comment" =>
             StatusOf(begin[1].doc, par[1].id) \in Terminal

\* C37: progress with a single engine and no store errors.  At the end of a
\* cycle every post that was pending and due when the cycle began is
\* published or failed, and no comment is pending that was due in the
\* comment phase and whose parent was published or failed before that
\* phase began; and in a run loop that goes on, an item that is pending and
\* due, with every parent up its chain due, does not stay pending for ever.
C37_Progress ==
    /\ [](pc[1] = "done" =>
            /\ \A k \in 1..Len(begin[1].doc) :
                  (IsPendingPost(begin[1].doc[k])
                     /\ begin[1].doc[k].publish_at <= begin[1].now)
                  => StatusOf(doc, begin[1].doc[k].id) \in Terminal
            /\ \A i \in 1..Len(doc) :
                  (doc[i].type = "comment" /\ doc[i].publish_at <= clock
                     /\ ParentWasTerminal(doc[i]))
                  => doc[i].status \in Terminal)
    /\ \A id \in 1..2 :
          [](StatusOf(doc, id) = "pending"
               /\ ChainDue(GetPost(doc, id)[1], 2)
             => <>(StatusOf(doc, id) # "pending"))

\* the end of a cycle that began with a due pending post and a due pending
\* comment on it: both are published or failed
C37_Witness ==
    /\ pc[1] = "done"
    /\ \E i, j \in 1..Len(doc) :
          /\ doc[i].type = "post" /\ doc[j].type = "comment"
          /\ doc[j].parent_uuid = doc[i].uuid
          /\ StatusOf(begin[1].doc, doc[i].id) = "pending"
          /\ StatusOf(begin[1].doc, doc[j].id) = "pending"
          /\ doc[i].status \in Terminal
          /\ doc[j].status \in Terminal

(* ------------------------------- C38 ---------------------------------- *)

\* C38: a shutdown signal is never lost.  Once the signal handler has run,
\* at any time after the daemon was constructed and also before run() has
\* reached its loop, run() returns in the end.
C38_SignalNeverLost ==
    daemon.signalled ~> (daemon.at = "returned")

(* ------------------------------- C39 ---------------------------------- *)

\* provider.post or provider.comment was invoked for the item in the cycle
\* of engine 1 and returned
RemoteSuccess(id) ==
    \E k \in 1..Len(trace[1]) :
       trace[1][k].id = id /\ trace[1][k].called /\ trace[1][k].ok

\* the step is engine 1 writing a new status on record i
WritesStatus(i) ==
    /\ pc[1] = "upd_write"
    /\ pc'[1] # "upd_write"
    /\ i <= Len(doc')
    /\ doc'[i].id = doc[i].id
    /\ doc'[i].status # doc[i].status

\* C39: the stored status agrees with the remote outcome.  The engine
\* stores published on an item only if the publish call for it returned,
\* and failed only if no publish call for it succeeded, also when the store
\* raised while the returned urn was being written.
C39_StatusAgreesWithRemote ==
    [][\A i \in 1..Len(doc) :
          WritesStatus(i) =>
             /\ doc'[i].status = "published" => RemoteSuccess(doc[i].id)
             /\ doc'[i].status = "failed" => ~RemoteSuccess(doc[i].id)]_vars

(* ------------------------------- C40 ---------------------------------- *)

\* C40: the creation of a comment is atomic with the check of its parent.
\* The document that a successful create_scheduled_post(type='comment')
\* writes holds the new comment together with the record whose uuid the
\* call validated as its parent, also when another client deletes or
\* prunes that record while the create is under way.
C40_ParentInWrittenDocument ==
    [][\A p \in Procs :
          (Writes(p) /\ call[p].rq.name = "create"
                     /\ call[p].rq.type = "comment") =>
             /\ call'[p].item # <<>>
             /\ call'[p].item[1] \in Range(doc')
             /\ call[p].rq.parent_uuid \in
                   {doc'[i].uuid : i \in 1..Len(doc')}]_vars

====
